---- MODULE Spec2Model ----
(***************************************************************************)
(* Dual-controller e-paper driver (EPD_13in3e) and the sketch that feeds   *)
(* it.  A driver function is a list of elementary operations (pin write,   *)
(* SPI byte, delay, busy wait); the machine executes one operation per     *)
(* step, so every intermediate level of the chip-select lines is a state.  *)
(***************************************************************************)
EXTENDS Integers, Sequences, FiniteSets, TLC

VARIABLES
    pin,        \* output level of every GPIO the driver writes
    todo,       \* operations of the running driver function still to execute
    trace,      \* events emitted so far (pin writes, SPI bytes, delays, busy-high reads)
    call,       \* name of the driver function running, or last run
    pre,        \* pin levels when that function was entered
    arg,        \* its buffer argument (Clear's colour as a one-byte buffer)
    polls,      \* low reads of the busy input during that function (saturates at MaxPolls)
    sess,       \* controller addressed by the last BeginFrame ("M", "S") or "none"
    lines,      \* WriteLine calls with a non-null buffer since that BeginFrame
    sessBytes,  \* data bytes clocked out since that BeginFrame while its CS was low
    ready,      \* Init has been called and neither Sleep nor PowerOff since
    upc,        \* position inside updateDisplay
    stream,     \* bytes the HTTP stream will still deliver
    line_buffer,\* updateDisplay's line buffer
    y,          \* loop counter of updateDisplay
    shortM,     \* Master line at which a short read happened, or -1
    shortS,     \* Slave line at which a short read happened, or -1
    master_bytes,
    slave_bytes,
    ret,        \* value returned by updateDisplay: "true", "false"; "none" while running
    cyc,        \* position in the power-cycle script (0 outside it)
    rep,        \* repetition of the power-cycle script
    firstTrace, \* pin writes and SPI bytes of the first repetition
    firstEnd,   \* pin levels at the end of the first repetition
    screen,     \* splash being shown by setup(): "config", "boot"; "none" before
    last_image_hash, \* the stored change-detection token
    response,   \* checkForNewImage: HTTP status and parsed body of the last answer
    token_before,    \* the stored token when that request was made
    new_image,  \* value returned by checkForNewImage: "true", "false"; "none"
    image,      \* the hash last reported as new by checkForNewImage, and what
                \* became of its download: "pending", "shown", "failed", or
                \* "again" when reported as new once more after a failure
    preferences,     \* flash namespace "boot": the keys lastBoot and bootCount
    bootCount,       \* detectDoubleReset's local bootCount
    currentBootTime, \* detectDoubleReset's boot marker
    bpc,        \* position of the current boot in detectDoubleReset / setup
    forceConfig,\* value returned by detectDoubleReset: "true", "false"; "none"
    prior,      \* where the previous boot was when the device was reset
    boots,      \* number of resets so far
    band_texts, \* DisplayTextScreen: the six band texts, as character codes
    written     \* DisplayTextScreen: lines handed to WriteLineM and WriteLineS

drv  == <<pin, todo, trace, call, pre, arg, polls, sess, lines, sessBytes, ready>>
app  == <<upc, stream, line_buffer, y, shortM, shortS, master_bytes, slave_bytes, ret>>
script == <<cyc, rep, firstTrace, firstEnd>>
bootv == <<preferences, bootCount, currentBootTime, bpc, forceConfig, prior, boots>>
splashv == <<band_texts, written>>
loopv == <<screen, last_image_hash, response, token_before, new_image, image, bootv, splashv>>
vars == <<pin, todo, trace, call, pre, arg, polls, sess, lines, sessBytes, ready,
          upc, stream, line_buffer, y, shortM, shortS, master_bytes, slave_bytes, ret,
          cyc, rep, firstTrace, firstEnd,
          screen, last_image_hash, response, token_before, new_image, image,
          preferences, bootCount, currentBootTime, bpc, forceConfig, prior, boots,
          band_texts, written>>

(***************************************************************************)
(* Bounds.  The panel is 1200 x 1600; the streaming loops are run on a     *)
(* panel of PanelWidth x PanelHeight so that a whole frame is a handful of *)
(* bytes.                                                                  *)
(***************************************************************************)
PanelWidth == 8
PanelHeight == 2
MaxPolls == 2
MaxLines == 3
MaxReps == 2

\* EPD_13in3e.h: colour codes
EPD_13IN3E_BLACK == 0
EPD_13IN3E_WHITE == 1
EPD_13IN3E_YELLOW == 2
EPD_13IN3E_RED == 3
EPD_13IN3E_BLUE == 5
EPD_13IN3E_GREEN == 6
Colors == {EPD_13IN3E_BLACK, EPD_13IN3E_WHITE, EPD_13IN3E_YELLOW,
           EPD_13IN3E_RED, EPD_13IN3E_BLUE, EPD_13IN3E_GREEN}

\* EPD_13in3e.h: command opcodes
PSR == 0
PWR_epd == 1
POF == 2
PON == 4
BTST_N == 5
BTST_P == 6
DSLP == 7
DTM == 16
DRF == 18
CDI == 80
TCON == 96
TRES == 97
AN_TM == 116
AGID == 134
BUCK_BOOST_VDDN == 176
TFT_VCOM_POWER == 177
EN_BUF == 182
BOOST_VDDP_EN == 183
CCSET == 224
PWS == 227
CMD66 == 240

\* EPD_13in3e.c: parameter blocks
PSR_V == <<223, 105>>
PWR_V == <<15, 0, 40, 44, 40, 56>>
POF_V == <<0>>
DRF_V == <<0>>
CDI_V == <<247>>
TCON_V == <<3, 3>>
\* Mutant: the resolution of the 1200 x 800 panel.
TRES_V_HalfHeight == <<4, 176, 3, 32>>

TRES_V == <<4, 176, 6, 64>>
CMD66_V == <<73, 85, 19, 93, 5, 16>>
EN_BUF_V == <<7>>
CCSET_V == <<1>>
PWS_V == <<34>>
AN_TM_V == <<192, 28, 28, 204, 204, 204, 21, 21, 85>>
AGID_V == <<16>>
BTST_P_V == <<232, 40>>
BOOST_VDDP_EN_V == <<1>>
BTST_N_V == <<232, 40>>
BUCK_BOOST_VDDN_V == <<1>>
TFT_VCOM_POWER_V == <<2>>

Pins == {"CS_M", "CS_S", "DC", "RST", "PWR"}

(***************************************************************************)
(* Elementary operations: <<kind, what, value>>.                           *)
(***************************************************************************)
DEV_Digital_Write(p, v) == <<"pin", p, v>>
DEV_Delay_ms(ms) == <<"delay", "ms", ms>>
DEV_SPI_WriteByte(kind, b) == <<"spi", kind, b>>
DEV_Digital_Read_BUSY == <<"busy", "read", 0>>
PollDelay == <<"delay", "poll", 10>>
esp_task_wdt_reset == <<"wdt", "poll", 0>>

\* Mutant: while (--len), one byte short.
Write_nByte_OneShort(data, len) ==
    [i \in 1..(len - 1) |-> DEV_SPI_WriteByte("dat", data[i])]

\* while (len--) SPI.transfer(*data++)
DEV_SPI_Write_nByte(data, len) == [i \in 1..len |-> DEV_SPI_WriteByte("dat", data[i])]

EPD_13IN3E_CS_ALL(Value) ==
    <<DEV_Digital_Write("CS_M", Value), DEV_Digital_Write("CS_S", Value)>>

EPD_13IN3E_SPI_Sand(Cmd, buf) ==
    <<DEV_SPI_WriteByte("cmd", Cmd)>> \o DEV_SPI_Write_nByte(buf, Len(buf))

\* Mutant: a single reset pulse.
Reset_SinglePulse ==
    << DEV_Digital_Write("RST", 1), DEV_Delay_ms(30),
       DEV_Digital_Write("RST", 0), DEV_Delay_ms(30),
       DEV_Digital_Write("RST", 1), DEV_Delay_ms(30) >>

EPD_13IN3E_Reset ==
    << DEV_Digital_Write("RST", 1), DEV_Delay_ms(30),
       DEV_Digital_Write("RST", 0), DEV_Delay_ms(30),
       DEV_Digital_Write("RST", 1), DEV_Delay_ms(30),
       DEV_Digital_Write("RST", 0), DEV_Delay_ms(30),
       DEV_Digital_Write("RST", 1), DEV_Delay_ms(30) >>

\* Mutant: the command/data line is driven low for the opcode.
SendCommand_DcLow(Reg) == <<DEV_Digital_Write("DC", 0), DEV_SPI_WriteByte("cmd", Reg)>>

EPD_13IN3E_SendCommand(Reg) == <<DEV_SPI_WriteByte("cmd", Reg)>>

EPD_13IN3E_SendData(Reg) == <<DEV_SPI_WriteByte("dat", Reg)>>

\* A buffer pointer is [null |-> BOOLEAN, mem |-> the bytes it points at].
EPD_13IN3E_SendData2(buf, Len_) ==
    IF buf.null \/ Len_ = 0 THEN <<>> ELSE DEV_SPI_Write_nByte(buf.mem, Len_)

\* The poll loop is unrolled by the steps ReadBusyLow / ReadBusyHigh below.
EPD_13IN3E_ReadBusyH == <<DEV_Digital_Read_BUSY>>

\* Mutant: waits on busy after the power-off command as well.
TurnOnDisplay_WaitAfterPOF ==
    EPD_13IN3E_CS_ALL(0) \o EPD_13IN3E_SendCommand(PON) \o EPD_13IN3E_CS_ALL(1)
    \o EPD_13IN3E_ReadBusyH
    \o <<DEV_Delay_ms(50)>>
    \o EPD_13IN3E_CS_ALL(0) \o EPD_13IN3E_SPI_Sand(DRF, DRF_V) \o EPD_13IN3E_CS_ALL(1)
    \o EPD_13IN3E_ReadBusyH
    \o EPD_13IN3E_CS_ALL(0) \o EPD_13IN3E_SPI_Sand(POF, POF_V) \o EPD_13IN3E_CS_ALL(1)
    \o EPD_13IN3E_ReadBusyH

EPD_13IN3E_TurnOnDisplay ==
    EPD_13IN3E_CS_ALL(0) \o EPD_13IN3E_SendCommand(PON) \o EPD_13IN3E_CS_ALL(1)
    \o EPD_13IN3E_ReadBusyH
    \o <<DEV_Delay_ms(50)>>
    \o EPD_13IN3E_CS_ALL(0) \o EPD_13IN3E_SPI_Sand(DRF, DRF_V) \o EPD_13IN3E_CS_ALL(1)
    \o EPD_13IN3E_ReadBusyH
    \o EPD_13IN3E_CS_ALL(0) \o EPD_13IN3E_SPI_Sand(POF, POF_V) \o EPD_13IN3E_CS_ALL(1)

\* One command of Init addressed to the Master only / to both controllers.
ToMaster(Cmd, buf) ==
    <<DEV_Digital_Write("CS_M", 0)>> \o EPD_13IN3E_SPI_Sand(Cmd, buf) \o EPD_13IN3E_CS_ALL(1)

\* Mutant: the broadcast helper selects the Master only.
ToBoth_SlaveLeftOut(Cmd, buf) ==
    <<DEV_Digital_Write("CS_M", 0)>> \o EPD_13IN3E_SPI_Sand(Cmd, buf) \o EPD_13IN3E_CS_ALL(1)

ToBoth(Cmd, buf) ==
    EPD_13IN3E_CS_ALL(0) \o EPD_13IN3E_SPI_Sand(Cmd, buf) \o EPD_13IN3E_CS_ALL(1)

EPD_13IN3E_Init ==
    EPD_13IN3E_Reset
    \o ToMaster(AN_TM, AN_TM_V)
    \o ToBoth(CMD66, CMD66_V)
    \o ToBoth(PSR, PSR_V)
    \o ToBoth(CDI, CDI_V)
    \o ToBoth(TCON, TCON_V)
    \o ToBoth(AGID, AGID_V)
    \o ToBoth(PWS, PWS_V)
    \o ToBoth(CCSET, CCSET_V)
    \o ToBoth(TRES, TRES_V)
    \o ToMaster(PWR_epd, PWR_V)
    \o ToMaster(EN_BUF, EN_BUF_V)
    \o ToMaster(BTST_P, BTST_P_V)
    \o ToMaster(BOOST_VDDP_EN, BOOST_VDDP_EN_V)
    \o ToMaster(BTST_N, BTST_N_V)
    \o ToMaster(BUCK_BOOST_VDDN, BUCK_BOOST_VDDN_V)
    \o ToMaster(TFT_VCOM_POWER, TFT_VCOM_POWER_V)

\* Bitwise or of two bytes.
RECURSIVE BitOr(_, _)
BitOr(a, b) ==
    IF a = 0 THEN b
    ELSE IF b = 0 THEN a
    ELSE 2 * BitOr(a \div 2, b \div 2) + (IF a % 2 = 1 \/ b % 2 = 1 THEN 1 ELSE 0)

\* s repeated n times
RECURSIVE Repeat(_, _)
Repeat(s, n) == IF n = 0 THEN <<>> ELSE s \o Repeat(s, n - 1)

\* Mutant: the colour is left in the low nibble only.
Clear_LowNibbleOnly(color) ==
    LET Width == IF PanelWidth % 2 = 0 THEN PanelWidth \div 2 ELSE PanelWidth \div 2 + 1
        Height == PanelHeight
        Color == color
        line_size == Width \div 2
        buf == [null |-> FALSE, mem |-> [i \in 1..line_size |-> Color]]
    IN  <<DEV_Digital_Write("CS_M", 0)>> \o EPD_13IN3E_SendCommand(DTM)
        \o Repeat(EPD_13IN3E_SendData2(buf, line_size), Height)
        \o EPD_13IN3E_CS_ALL(1)
        \o <<DEV_Digital_Write("CS_S", 0)>> \o EPD_13IN3E_SendCommand(DTM)
        \o Repeat(EPD_13IN3E_SendData2(buf, line_size), Height)
        \o EPD_13IN3E_CS_ALL(1)
        \o EPD_13IN3E_TurnOnDisplay

EPD_13IN3E_Clear(color) ==
    LET Width == IF PanelWidth % 2 = 0 THEN PanelWidth \div 2 ELSE PanelWidth \div 2 + 1
        Height == PanelHeight
        Color == BitOr((color * 16) % 256, color)
        line_size == Width \div 2
        buf == [null |-> FALSE, mem |-> [i \in 1..line_size |-> Color]]
    IN  <<DEV_Digital_Write("CS_M", 0)>> \o EPD_13IN3E_SendCommand(DTM)
        \o Repeat(EPD_13IN3E_SendData2(buf, line_size), Height)
        \o EPD_13IN3E_CS_ALL(1)
        \o <<DEV_Digital_Write("CS_S", 0)>> \o EPD_13IN3E_SendCommand(DTM)
        \o Repeat(EPD_13IN3E_SendData2(buf, line_size), Height)
        \o EPD_13IN3E_CS_ALL(1)
        \o EPD_13IN3E_TurnOnDisplay

\* Mutant: drives the power-enable line only when it is not already high.
PowerOn_SkipIfHigh ==
    IF pin["PWR"] = 1 THEN <<>> ELSE <<DEV_Digital_Write("PWR", 1), DEV_Delay_ms(100)>>

\* Mutant: PowerOn also runs the pin set-up of DEV_Module_Init.
PowerOn_ModuleInit ==
    <<DEV_Digital_Write("PWR", 1), DEV_Delay_ms(100),
      DEV_Digital_Write("CS_M", 1), DEV_Digital_Write("CS_S", 1),
      DEV_Digital_Write("DC", 1), DEV_Digital_Write("RST", 1)>>

EPD_13IN3E_PowerOn == <<DEV_Digital_Write("PWR", 1), DEV_Delay_ms(100)>>

EPD_13IN3E_Sleep ==
    EPD_13IN3E_CS_ALL(0) \o EPD_13IN3E_SendCommand(DSLP) \o EPD_13IN3E_SendData(165)
    \o EPD_13IN3E_CS_ALL(1) \o <<DEV_Delay_ms(100)>>

\* Mutant: cuts the power first and sends the deep-sleep command afterwards.
PowerOff_PowerCutFirst ==
    <<DEV_Digital_Write("PWR", 0)>> \o EPD_13IN3E_Sleep \o <<DEV_Delay_ms(100)>>

EPD_13IN3E_PowerOff ==
    EPD_13IN3E_Sleep \o <<DEV_Delay_ms(100), DEV_Digital_Write("PWR", 0)>>

BYTES_PER_LINE_HALF == PanelWidth \div 4

EPD_13IN3E_BeginFrameM == <<DEV_Digital_Write("CS_M", 0)>> \o EPD_13IN3E_SendCommand(DTM)

\* Mutant: a null buffer is sent as a line of white pixels.
WriteLineM_NullAsWhite(p300) ==
    DEV_SPI_Write_nByte(IF p300.null THEN [i \in 1..(PanelWidth \div 4) |-> 17] ELSE p300.mem,
                        PanelWidth \div 4)

EPD_13IN3E_WriteLineM(p300) ==
    IF p300.null THEN <<>> ELSE EPD_13IN3E_SendData2(p300, PanelWidth \div 4)

EPD_13IN3E_EndFrameM == EPD_13IN3E_CS_ALL(1)

\* Mutant: selects the Slave without deselecting first.
BeginFrameS_NoDeselect ==
    <<DEV_Digital_Write("CS_S", 0)>> \o EPD_13IN3E_SendCommand(DTM)

\* Mutant: sends the opcode before the Slave is selected.
BeginFrameS_OpcodeFirst ==
    EPD_13IN3E_CS_ALL(1) \o EPD_13IN3E_SendCommand(DTM) \o <<DEV_Digital_Write("CS_S", 0)>>

EPD_13IN3E_BeginFrameS ==
    EPD_13IN3E_CS_ALL(1) \o <<DEV_Digital_Write("CS_S", 0)>> \o EPD_13IN3E_SendCommand(DTM)

EPD_13IN3E_WriteLineS(p300) ==
    IF p300.null THEN <<>> ELSE EPD_13IN3E_SendData2(p300, PanelWidth \div 4)

\* Mutant: only the Slave is deselected.
EndFrameS_SlaveOnly == <<DEV_Digital_Write("CS_S", 1)>>

EPD_13IN3E_EndFrameS == EPD_13IN3E_CS_ALL(1)

EPD_13IN3E_RefreshNow == EPD_13IN3E_TurnOnDisplay


(***************************************************************************)
(* The machine: entering a driver function, and its elementary steps.      *)
(***************************************************************************)
PixelBytes == {17, 53}

LineMems == UNION {[1..n -> PixelBytes] : n \in {PanelWidth \div 4, PanelWidth \div 4 + 1}}

NullBuffer == [null |-> TRUE, mem |-> <<>>]

ColorArg(c) == [null |-> FALSE, mem |-> <<c>>]

Buffers == {NullBuffer} \cup {[null |-> FALSE, mem |-> m] : m \in LineMems}

Min(a, b) == IF a < b THEN a ELSE b
Max2(a, b) == IF a > b THEN a ELSE b

CsOf(c) == IF c = "M" THEN "CS_M" ELSE "CS_S"

\* What the bus sees: the operation and the level of both chip selects.
Event(op, p) == <<op[1], op[2], op[3], p["CS_M"], p["CS_S"]>>

\* State left by DEV_Module_Init: every output high.
DEV_Module_Init == [p \in Pins |-> 1]

\* Entering driver function `name`, whose body is `ops`.  `keep` says whether
\* the events of earlier calls stay in the trace (a caller's whole run) or not.
Enter(name, a, ops, keep) ==
    /\ todo = <<>>
    /\ call' = name
    /\ arg' = a
    /\ todo' = ops
    /\ pre' = pin
    /\ polls' = 0
    /\ trace' = IF keep THEN trace ELSE <<>>
    /\ sess' = IF name = "BeginFrameM" THEN "M"
               ELSE IF name = "BeginFrameS" THEN "S"
               ELSE IF name \in {"WriteLineM", "WriteLineS"} THEN sess
               ELSE "none"
    /\ lines' = IF name \in {"WriteLineM", "WriteLineS"}
                THEN (IF ops = <<>> THEN lines ELSE lines + 1)
                ELSE 0
    /\ sessBytes' = IF name \in {"WriteLineM", "WriteLineS"} THEN sessBytes ELSE 0
    /\ ready' = IF name = "Init" THEN TRUE
                ELSE IF name \in {"Sleep", "PowerOff"} THEN FALSE
                ELSE ready
    /\ UNCHANGED pin

\* digitalWrite
StepPin ==
    /\ todo # <<>> /\ Head(todo)[1] = "pin"
    /\ pin' = [pin EXCEPT ![Head(todo)[2]] = Head(todo)[3]]
    /\ trace' = Append(trace, Event(Head(todo), pin'))
    /\ todo' = Tail(todo)
    /\ UNCHANGED <<call, pre, arg, polls, sess, lines, sessBytes, ready>>

\* SPI.transfer
StepSpi ==
    /\ todo # <<>> /\ Head(todo)[1] = "spi"
    /\ trace' = Append(trace, Event(Head(todo), pin))
    /\ sessBytes' = IF Head(todo)[2] = "dat" /\ sess # "none" /\ pin[CsOf(sess)] = 0
                    THEN sessBytes + 1 ELSE sessBytes
    /\ todo' = Tail(todo)
    /\ UNCHANGED <<pin, call, pre, arg, polls, sess, lines, ready>>

\* delay; the 10 ms delays of the poll loop are not logged
StepDelay ==
    /\ todo # <<>> /\ Head(todo)[1] = "delay"
    /\ trace' = IF Head(todo)[2] = "poll" THEN trace
                ELSE Append(trace, Event(Head(todo), pin))
    /\ todo' = Tail(todo)
    /\ UNCHANGED <<pin, call, pre, arg, polls, sess, lines, sessBytes, ready>>

\* watchdog keepalive of the poll loop
StepWdt ==
    /\ todo # <<>> /\ Head(todo)[1] = "wdt"
    /\ todo' = Tail(todo)
    /\ UNCHANGED <<pin, trace, call, pre, arg, polls, sess, lines, sessBytes, ready>>

\* Mutant: the poll gives up after MaxPolls low reads.
ReadBusyLow_Timeout ==
    /\ todo # <<>> /\ Head(todo)[1] = "busy"
    /\ todo' = IF polls >= MaxPolls THEN Tail(todo)
               ELSE <<PollDelay, esp_task_wdt_reset>> \o todo
    /\ polls' = Min(polls + 1, MaxPolls)
    /\ UNCHANGED <<pin, trace, call, pre, arg, sess, lines, sessBytes, ready>>

\* Mutant: the loop body only delays, without the watchdog keepalive.
ReadBusyLow_NoKeepalive ==
    /\ todo # <<>> /\ Head(todo)[1] = "busy"
    /\ todo' = <<PollDelay>> \o todo
    /\ polls' = Min(polls + 1, MaxPolls)
    /\ UNCHANGED <<pin, trace, call, pre, arg, sess, lines, sessBytes, ready>>

\* while(!DEV_Digital_Read(EPD_BUSY_PIN)) { delay 10; wdt reset }: the read is low
ReadBusyLow ==
    /\ todo # <<>> /\ Head(todo)[1] = "busy"
    /\ todo' = <<PollDelay, esp_task_wdt_reset>> \o todo
    /\ polls' = Min(polls + 1, MaxPolls)
    /\ UNCHANGED <<pin, trace, call, pre, arg, sess, lines, sessBytes, ready>>

\* the read is high: the loop ends, DEV_Delay_ms(20) follows
ReadBusyHigh ==
    /\ todo # <<>> /\ Head(todo)[1] = "busy"
    /\ todo' = <<DEV_Delay_ms(20)>> \o Tail(todo)
    /\ trace' = Append(trace, <<"busy", "read", 1, pin["CS_M"], pin["CS_S"]>>)
    /\ UNCHANGED <<pin, call, pre, arg, polls, sess, lines, sessBytes, ready>>

Step == StepPin \/ StepSpi \/ StepDelay \/ StepWdt \/ ReadBusyLow \/ ReadBusyHigh

(***************************************************************************)
(* Spec: any sequence of public driver calls.                              *)
(***************************************************************************)
AppIdle ==
    /\ upc = "idle" /\ stream = <<>> /\ line_buffer = <<>> /\ y = 0
    /\ shortM = -1 /\ shortS = -1 /\ master_bytes = 0 /\ slave_bytes = 0 /\ ret = "none"

ScriptIdle == cyc = 0 /\ rep = 0 /\ firstTrace = <<>> /\ firstEnd = DEV_Module_Init

DrvInit ==
    /\ pin = DEV_Module_Init
    /\ todo = <<>> /\ trace = <<>> /\ call = "none" /\ pre = DEV_Module_Init
    /\ arg = NullBuffer
    /\ polls = 0 /\ sess = "none" /\ lines = 0 /\ sessBytes = 0 /\ ready = FALSE

\* No request made yet.
NoResponse == [code |-> 0, has |-> FALSE, hash |-> <<>>]

\* First power-up with an empty flash: getUInt(key, 0) reads 0 for both keys.
BootIdle ==
    /\ preferences = [lastBoot |-> 0, bootCount |-> 0]
    /\ bootCount = 0 /\ currentBootTime = 0
    /\ bpc = "boot" /\ forceConfig = "none" /\ prior = "none" /\ boots = 0

\* DisplayTextScreen not entered: no band text built, no line written.
SplashIdle == band_texts = <<>> /\ written = [M |-> 0, S |-> 0]

\* char last_image_hash[33] = "": the stored token starts empty
LoopIdle ==
    /\ screen = "none" /\ last_image_hash = <<>> /\ response = NoResponse
    /\ token_before = <<>> /\ new_image = "none"
    /\ image = [hash |-> <<>>, state |-> "none"]
    /\ BootIdle
    /\ SplashIdle

Init == DrvInit /\ AppIdle /\ ScriptIdle /\ LoopIdle

CallPowerOn == Enter("PowerOn", NullBuffer, EPD_13IN3E_PowerOn, FALSE)
CallInit == Enter("Init", NullBuffer, EPD_13IN3E_Init, FALSE)
CallBeginFrameM == Enter("BeginFrameM", NullBuffer, EPD_13IN3E_BeginFrameM, FALSE)
CallWriteLineM ==
    /\ lines < MaxLines
    /\ \E p \in Buffers : Enter("WriteLineM", p, EPD_13IN3E_WriteLineM(p), FALSE)
CallEndFrameM == Enter("EndFrameM", NullBuffer, EPD_13IN3E_EndFrameM, FALSE)
CallBeginFrameS == Enter("BeginFrameS", NullBuffer, EPD_13IN3E_BeginFrameS, FALSE)
CallWriteLineS ==
    /\ lines < MaxLines
    /\ \E p \in Buffers : Enter("WriteLineS", p, EPD_13IN3E_WriteLineS(p), FALSE)
CallEndFrameS == Enter("EndFrameS", NullBuffer, EPD_13IN3E_EndFrameS, FALSE)
CallRefreshNow == Enter("RefreshNow", NullBuffer, EPD_13IN3E_RefreshNow, FALSE)
CallClear == \E c \in Colors : Enter("Clear", ColorArg(c), EPD_13IN3E_Clear(c), FALSE)
CallSleep == Enter("Sleep", NullBuffer, EPD_13IN3E_Sleep, FALSE)
CallPowerOff == Enter("PowerOff", NullBuffer, EPD_13IN3E_PowerOff, FALSE)

Next ==
    \/ (CallPowerOn /\ UNCHANGED <<app, script, loopv>>)
    \/ (CallInit /\ UNCHANGED <<app, script, loopv>>)
    \/ (CallBeginFrameM /\ UNCHANGED <<app, script, loopv>>)
    \/ (CallWriteLineM /\ UNCHANGED <<app, script, loopv>>)
    \/ (CallEndFrameM /\ UNCHANGED <<app, script, loopv>>)
    \/ (CallBeginFrameS /\ UNCHANGED <<app, script, loopv>>)
    \/ (CallWriteLineS /\ UNCHANGED <<app, script, loopv>>)
    \/ (CallEndFrameS /\ UNCHANGED <<app, script, loopv>>)
    \/ (CallRefreshNow /\ UNCHANGED <<app, script, loopv>>)
    \/ (CallClear /\ UNCHANGED <<app, script, loopv>>)
    \/ (CallSleep /\ UNCHANGED <<app, script, loopv>>)
    \/ (CallPowerOff /\ UNCHANGED <<app, script, loopv>>)
    \/ (StepPin /\ UNCHANGED <<app, script, loopv>>)
    \/ (StepSpi /\ UNCHANGED <<app, script, loopv>>)
    \/ (StepDelay /\ UNCHANGED <<app, script, loopv>>)
    \/ (StepWdt /\ UNCHANGED <<app, script, loopv>>)
    \/ (ReadBusyLow /\ UNCHANGED <<app, script, loopv>>)
    \/ (ReadBusyHigh /\ UNCHANGED <<app, script, loopv>>)

Spec == Init /\ [][Next]_vars


(***************************************************************************)
(* Properties of the driver under Spec.                                    *)
(***************************************************************************)
IsPrefix(a, b) == Len(a) <= Len(b) /\ \A i \in 1..Len(a) : a[i] = b[i]

IsSpi(e) == e[1] = "spi"
IsPin(e) == e[1] = "pin"
NotPin(e) == e[1] # "pin"
IsCsWrite(e) == e[1] = "pin" /\ e[2] \in {"CS_M", "CS_S"}

BothAsserted == pin["CS_M"] = 0 /\ pin["CS_S"] = 0
Returned(f) == call = f /\ todo = <<>>

Broadcasters == {"Init", "RefreshNow", "Clear", "Sleep", "PowerOff"}

\* The chip selects were last written by CS_ALL(0).
AfterCsAll0 ==
    LET w == SelectSeq(trace, IsCsWrite)
    IN  /\ Len(w) >= 2
        /\ w[Len(w) - 1][2] = "CS_M" /\ w[Len(w) - 1][3] = 0
        /\ w[Len(w)][2] = "CS_S" /\ w[Len(w)][3] = 0

WroteSlaveCs == \E i \in 1..Len(trace) : IsPin(trace[i]) /\ trace[i][2] = "CS_S"

BeginFrameS_Trace ==
    << <<"pin", "CS_M", 1, 1, pre["CS_S"]>>,
       <<"pin", "CS_S", 1, 1, 1>>,
       <<"pin", "CS_S", 0, 1, 0>>,
       <<"spi", "cmd", 16, 1, 0>> >>

\* C2: from any chip-select state BeginFrameS first drives both CS high, then
\* the Slave CS low, then transmits 0x10; on return Slave CS is low, Master CS
\* is high and exactly that one byte was transmitted.
C2_BeginFrameS ==
    call = "BeginFrameS" =>
        /\ IsPrefix(trace, BeginFrameS_Trace)
        /\ (todo = <<>> =>
                /\ trace = BeginFrameS_Trace
                /\ pin["CS_S"] = 0 /\ pin["CS_M"] = 1)

C2_Witness == Returned("BeginFrameS") /\ pre["CS_M"] = 0

\* C3: on return from BeginFrameM the Master CS is low and the Slave CS is
\* high, whatever the chip-select state on entry, and 0x10 is transmitted only
\* while the Slave is deselected.
C3_BeginFrameM_MasterOnly ==
    call = "BeginFrameM" =>
        /\ (todo = <<>> => pin["CS_M"] = 0 /\ pin["CS_S"] = 1)
        /\ \A i \in 1..Len(trace) : IsSpi(trace[i]) => trace[i][5] = 1

RefreshNow_Trace ==
    << <<"spi", "cmd", 4, 0, 0>>,
       <<"busy", "read", 1, 1, 1>>, <<"delay", "ms", 20, 1, 1>>,
       <<"delay", "ms", 50, 1, 1>>,
       <<"spi", "cmd", 18, 0, 0>>, <<"spi", "dat", 0, 0, 0>>,
       <<"busy", "read", 1, 1, 1>>, <<"delay", "ms", 20, 1, 1>>,
       <<"spi", "cmd", 2, 0, 0>>, <<"spi", "dat", 0, 0, 0>> >>

PowerOffSent ==
    \E i \in 1..Len(trace) : IsSpi(trace[i]) /\ trace[i][2] = "cmd" /\ trace[i][3] = 2

BusyPending == \E i \in 1..Len(todo) : todo[i][1] = "busy"

\* C4: RefreshNow emits, in this order and nothing else on the bus: 0x04 to
\* both controllers, a busy wait ended by a high read (with ReadBusyH's own
\* 20 ms settle), a 50 ms delay, 0x12 0x00 to both, a second busy wait,
\* 0x02 0x00 to both; after 0x02 the busy input is not read again.
C4_RefreshNowSequence ==
    call = "RefreshNow" =>
        /\ IsPrefix(SelectSeq(trace, NotPin), RefreshNow_Trace)
        /\ (todo = <<>> => SelectSeq(trace, NotPin) = RefreshNow_Trace)
        /\ (PowerOffSent => ~BusyPending)

C4_Witness == Returned("RefreshNow") /\ polls >= 1

Reset_Trace ==
    << <<"pin", "RST", 1, pre["CS_M"], pre["CS_S"]>>, <<"delay", "ms", 30, pre["CS_M"], pre["CS_S"]>>,
       <<"pin", "RST", 0, pre["CS_M"], pre["CS_S"]>>, <<"delay", "ms", 30, pre["CS_M"], pre["CS_S"]>>,
       <<"pin", "RST", 1, pre["CS_M"], pre["CS_S"]>>, <<"delay", "ms", 30, pre["CS_M"], pre["CS_S"]>>,
       <<"pin", "RST", 0, pre["CS_M"], pre["CS_S"]>>, <<"delay", "ms", 30, pre["CS_M"], pre["CS_S"]>>,
       <<"pin", "RST", 1, pre["CS_M"], pre["CS_S"]>>, <<"delay", "ms", 30, pre["CS_M"], pre["CS_S"]>> >>

IsRstWrite(e) == e[1] = "pin" /\ e[2] = "RST"

\* C6: Init starts with the reset sequence: the reset line is written exactly
\* five times, high low high low high, each write followed by a 30 ms delay;
\* no SPI byte (and no other event) comes before the fifth delay, and the reset
\* line is left high.
C6_DoubleResetPulse ==
    call = "Init" =>
        /\ IsPrefix(SubSeq(trace, 1, Min(Len(trace), 10)), Reset_Trace)
        /\ Len(SelectSeq(trace, IsRstWrite)) <= 5
        /\ (Len(trace) >= 10 => Len(SelectSeq(trace, IsRstWrite)) = 5 /\ pin["RST"] = 1)

C6_Witness ==
    call = "Init" /\ Len(trace) = 12 /\ IsSpi(trace[12]) /\ pre["CS_M"] = 0

InWriteLine == call \in {"WriteLineM", "WriteLineS"}

\* C9: a WriteLine call with a non-null buffer transmits exactly the first
\* width/4 bytes of the buffer, in order, and nothing else; so after k such
\* calls since a BeginFrame the controller it selected has been sent
\* k * width/4 data bytes (height * width/4 after height calls).
C9_WriteLineBytes ==
    /\ (InWriteLine /\ ~arg.null) =>
           /\ Len(trace) <= BYTES_PER_LINE_HALF
           /\ \A i \in 1..Len(trace) :
                  trace[i][1] = "spi" /\ trace[i][2] = "dat" /\ trace[i][3] = arg.mem[i]
           /\ (todo = <<>> => Len(trace) = BYTES_PER_LINE_HALF)
    /\ (sess # "none" /\ todo = <<>>) => sessBytes = lines * BYTES_PER_LINE_HALF

C9_Witness ==
    /\ Returned("WriteLineS") /\ sess = "S" /\ lines = PanelHeight
    /\ sessBytes = PanelHeight * BYTES_PER_LINE_HALF
    /\ Len(arg.mem) > BYTES_PER_LINE_HALF

Sleep_Trace ==
    << <<"pin", "CS_M", 0, 0, pre["CS_S"]>>,
       <<"pin", "CS_S", 0, 0, 0>>,
       <<"spi", "cmd", 7, 0, 0>>,
       <<"spi", "dat", 165, 0, 0>>,
       <<"pin", "CS_M", 1, 1, 0>>,
       <<"pin", "CS_S", 1, 1, 1>>,
       <<"delay", "ms", 100, 1, 1>> >>

PowerOff_Trace ==
    Sleep_Trace \o << <<"delay", "ms", 100, 1, 1>>, <<"pin", "PWR", 0, 1, 1>> >>

PowerCut(e) == e[1] = "pin" /\ e[2] = "PWR" /\ e[3] = 0

\* C12: Sleep drives both CS low, transmits exactly 0x07 then 0xA5, drives both
\* CS high, then delays 100 ms; PowerOff does the same, then delays another
\* 100 ms and only then drives the power-enable line low, which is its last
\* event: no SPI byte follows it and power is never cut while a CS is low.
C12_SleepThenPowerCut ==
    /\ call = "Sleep" =>
           /\ IsPrefix(trace, Sleep_Trace)
           /\ (todo = <<>> => trace = Sleep_Trace)
    /\ call = "PowerOff" =>
           /\ IsPrefix(trace, PowerOff_Trace)
           /\ (todo = <<>> => trace = PowerOff_Trace /\ pin["PWR"] = 0)
           /\ \A i \in 1..Len(trace) : PowerCut(trace[i]) =>
                  /\ i = Len(PowerOff_Trace)
                  /\ \A j \in 1..Len(trace) : IsSpi(trace[j]) => j < i

C12_Witness ==
    /\ Returned("PowerOff") /\ pre["PWR"] = 1 /\ pin["PWR"] = 0
    /\ Len(SelectSeq(trace, IsSpi)) = 2

\* The SPI bytes of the running call, in order.
SpiEvents == SelectSeq(trace, IsSpi)
BytesOf(ev) == [i \in 1..Len(ev) |-> ev[i][3]]

\* Opcode and parameters of the first nine commands of Init.
AN_TM_Bytes == <<AN_TM>> \o AN_TM_V
SlaveSubset_Bytes ==
    <<CMD66>> \o CMD66_V \o <<PSR>> \o PSR_V \o <<CDI>> \o CDI_V \o <<TCON>> \o TCON_V
    \o <<AGID>> \o AGID_V \o <<PWS>> \o PWS_V \o <<CCSET>> \o CCSET_V \o <<TRES>> \o TRES_V
FirstNine_Bytes == AN_TM_Bytes \o SlaveSubset_Bytes

\* C13 as stated: every byte of AN_TM, CMD66, PSR, CDI, TCON, AGID, PWS, CCSET
\* and TRES is transmitted by Init while the Slave CS is low.
C13_SlaveReceivesFirstNine ==
    call = "Init" =>
        /\ IsPrefix(SubSeq(BytesOf(SpiEvents), 1, Min(Len(SpiEvents), Len(FirstNine_Bytes))),
                    FirstNine_Bytes)
        /\ \A i \in 1..Min(Len(SpiEvents), Len(FirstNine_Bytes)) : SpiEvents[i][5] = 0

\* C13 amended: Init transmits CMD66, PSR, CDI, TCON, AGID, PWS, CCSET and TRES
\* (opcode and parameters) with both CS lines low; AN_TM, sent before them, is
\* transmitted with the Master CS low and the Slave CS at the level it had when
\* Init was entered, because Init writes only the Master CS before it.
C13_SlaveReceivesEightNotAN_TM ==
    call = "Init" =>
        /\ IsPrefix(SubSeq(BytesOf(SpiEvents), 1, Min(Len(SpiEvents), Len(FirstNine_Bytes))),
                    FirstNine_Bytes)
        /\ \A i \in 1..Min(Len(SpiEvents), Len(FirstNine_Bytes)) :
               /\ SpiEvents[i][4] = 0
               /\ SpiEvents[i][5] = (IF i <= Len(AN_TM_Bytes) THEN pre["CS_S"] ELSE 0)

C13_Witness ==
    /\ Returned("Init") /\ pre["CS_S"] = 1
    /\ Len(SpiEvents) > Len(FirstNine_Bytes)
    /\ SpiEvents[1] = <<"spi", "cmd", 116, 0, 1>>
    /\ SpiEvents[Len(FirstNine_Bytes)] = <<"spi", "dat", 64, 0, 0>>

\* Chip-select levels <<Master, Slave>> that address the k-th SPI byte of f:
\* in Init AN_TM and the commands after TRES go to the Master, the rest (and
\* every command of RefreshNow and Sleep) to both.
AddressedBy(f, k) ==
    IF f = "Init" /\ (k <= Len(AN_TM_Bytes) \/ k > Len(FirstNine_Bytes))
    THEN <<0, 1>> ELSE <<0, 0>>

Waits(e) == e[1] \in {"delay", "busy"}

CsFramed ==
    /\ \A k \in 1..Len(SpiEvents) :
           <<SpiEvents[k][4], SpiEvents[k][5]>> = AddressedBy(call, k)
    /\ \A i \in 1..Len(trace) : IsSpi(trace[i]) =>
           /\ i > 1
           /\ (trace[i][2] = "cmd" => IsCsWrite(trace[i - 1]) /\ trace[i - 1][3] = 0)
           /\ (i < Len(trace) =>
                  \/ (IsSpi(trace[i + 1]) /\ trace[i + 1][2] = "dat")
                  \/ (IsCsWrite(trace[i + 1]) /\ trace[i + 1][3] = 1))
    /\ \A i \in 1..Len(trace) : \A j \in (i + 1)..Len(trace) :
           (IsSpi(trace[i]) /\ Waits(trace[j])) => (trace[j][4] = 1 /\ trace[j][5] = 1)

ReturnDeselected ==
    {"Init", "RefreshNow", "Sleep", "PowerOff", "Clear", "EndFrameM", "EndFrameS"}

\* C14: every command of Init, RefreshNow and Sleep is transmitted with the CS
\* of exactly the addressed controller(s) low, the opcode directly after a CS
\* line was driven low, and the last parameter byte directly followed by the
\* CS lines being driven high, so that every later delay or busy read happens
\* with both high; and Init, RefreshNow, Sleep, PowerOff, Clear, EndFrameM and
\* EndFrameS return with both CS lines high.
C14_ChipSelectFraming ==
    /\ call \in {"Init", "RefreshNow", "Sleep"} => CsFramed
    /\ (todo = <<>> /\ call \in ReturnDeselected) => (pin["CS_M"] = 1 /\ pin["CS_S"] = 1)

PowerOnCmd(e) == e[1] = "spi" /\ e[2] = "cmd" /\ e[3] = PON
IsPixel(e) == e[1] = "spi" /\ e[2] = "dat"

\* The pixel bytes of a Clear: the data bytes that precede the refresh (0x04).
RefreshAt ==
    IF \E i \in 1..Len(trace) : PowerOnCmd(trace[i])
    THEN CHOOSE i \in 1..Len(trace) :
             PowerOnCmd(trace[i]) /\ \A j \in 1..(i - 1) : ~PowerOnCmd(trace[j])
    ELSE Len(trace) + 1
ClearPixels == BytesOf(SelectSeq(SubSeq(trace, 1, RefreshAt - 1), IsPixel))

\* C18: for every colour code c of the palette, every pixel byte Clear(c)
\* transmits, to either controller, has c in its high and in its low nibble,
\* that is, equals 17 * c = (c << 4) | c.
C18_ClearPackedColor ==
    call = "Clear" =>
        /\ arg.mem[1] \in {0, 1, 2, 3, 5, 6}
        /\ \A i \in 1..Len(ClearPixels) :
               /\ ClearPixels[i] \div 16 = arg.mem[1]
               /\ ClearPixels[i] % 16 = arg.mem[1]
               /\ ClearPixels[i] = 17 * arg.mem[1]

C18_Witness ==
    /\ Returned("Clear") /\ arg.mem[1] = 6
    /\ Len(ClearPixels) = 2 * PanelHeight * (PanelWidth \div 4)
    /\ ClearPixels[Len(ClearPixels)] = 102

NTimes(e, n) == [i \in 1..n |-> e]

\* What the bus sees of a full refresh entered with both CS lines high.
Refresh_Events ==
    << <<"pin", "CS_M", 0, 0, 1>>, <<"pin", "CS_S", 0, 0, 0>>,
       <<"spi", "cmd", 4, 0, 0>>,
       <<"pin", "CS_M", 1, 1, 0>>, <<"pin", "CS_S", 1, 1, 1>>,
       <<"busy", "read", 1, 1, 1>>, <<"delay", "ms", 20, 1, 1>>,
       <<"delay", "ms", 50, 1, 1>>,
       <<"pin", "CS_M", 0, 0, 1>>, <<"pin", "CS_S", 0, 0, 0>>,
       <<"spi", "cmd", 18, 0, 0>>, <<"spi", "dat", 0, 0, 0>>,
       <<"pin", "CS_M", 1, 1, 0>>, <<"pin", "CS_S", 1, 1, 1>>,
       <<"busy", "read", 1, 1, 1>>, <<"delay", "ms", 20, 1, 1>>,
       <<"pin", "CS_M", 0, 0, 1>>, <<"pin", "CS_S", 0, 0, 0>>,
       <<"spi", "cmd", 2, 0, 0>>, <<"spi", "dat", 0, 0, 0>>,
       <<"pin", "CS_M", 1, 1, 0>>, <<"pin", "CS_S", 1, 1, 1>> >>

\* Clear(c) as the claim describes it: the Master frame with only the Master
\* CS low, deselect, the Slave frame with only the Slave CS low, deselect, one
\* refresh.
Clear_Events(c) ==
    << <<"pin", "CS_M", 0, 0, 1>>, <<"spi", "cmd", 16, 0, 1>> >>
    \o NTimes(<<"spi", "dat", 17 * c, 0, 1>>, PanelHeight * (PanelWidth \div 4))
    \o << <<"pin", "CS_M", 1, 1, 1>>, <<"pin", "CS_S", 1, 1, 1>> >>
    \o << <<"pin", "CS_S", 0, 1, 0>>, <<"spi", "cmd", 16, 1, 0>> >>
    \o NTimes(<<"spi", "dat", 17 * c, 1, 0>>, PanelHeight * (PanelWidth \div 4))
    \o << <<"pin", "CS_M", 1, 1, 0>>, <<"pin", "CS_S", 1, 1, 1>> >>
    \o Refresh_Events

\* C19: Clear transmits, in order and nothing else: 0x10 and height lines of
\* width/4 bytes with only the Master CS low; both CS high; 0x10 and height
\* lines of width/4 bytes with only the Slave CS low; both CS high; one
\* refresh 0x04, 0x12, 0x02.
C19_ClearSequence ==
    call = "Clear" =>
        /\ IsPrefix(trace, Clear_Events(arg.mem[1]))
        /\ (todo = <<>> => trace = Clear_Events(arg.mem[1]))

\* A chip select was low when the running call was entered.
SelectedAtEntry == pre["CS_M"] = 0 \/ pre["CS_S"] = 0

\* The running call is out of state order: a WriteLine with no frame session
\* open, a BeginFrame or RefreshNow with no Init since boot or since the last
\* Sleep or PowerOff, or a RefreshNow inside an open frame session.
OutOfOrder ==
    \/ (InWriteLine /\ sess = "none" /\ ~SelectedAtEntry)
    \/ (call \in {"BeginFrameM", "BeginFrameS", "RefreshNow"} /\ ~ready)
    \/ (call = "RefreshNow" /\ SelectedAtEntry)

\* C20: a call made out of state order is rejected: it transmits no byte and
\* leaves every pin as it was on entry.
C20_OutOfOrderRejected ==
    OutOfOrder => (SpiEvents = <<>> /\ pin = pre)

\* The next operation of the running call.
NextOp == IF todo = <<>> THEN <<"none", "none", 0>> ELSE Head(todo)

BusyHigh == <<"busy", "read", 1, pin["CS_M"], pin["CS_S"]>>

\* One step of the poll loop of ReadBusyH.
PollLoopStep ==
    /\ NextOp = DEV_Digital_Read_BUSY =>
           \/ (todo' = <<PollDelay, esp_task_wdt_reset>> \o todo /\ trace' = trace)
           \/ (todo' = <<DEV_Delay_ms(20)>> \o Tail(todo) /\ trace' = Append(trace, BusyHigh))
    /\ NextOp = PollDelay =>
           (todo' = Tail(todo) /\ Head(todo') = esp_task_wdt_reset /\ trace' = trace)
    /\ NextOp = esp_task_wdt_reset =>
           (todo' = Tail(todo) /\ Head(todo') = DEV_Digital_Read_BUSY /\ trace' = trace)
    /\ (NextOp[1] # "busy" /\ todo' # <<>> /\ Head(todo')[1] \in {"wdt", "busy"}) =>
           (todo' = Tail(todo) /\ (NextOp = PollDelay \/ Head(todo')[1] = "busy"))

\* C21: in ReadBusyH every low read of the busy input is followed by exactly
\* one 10 ms delay, then one watchdog reset, then the next read; the keepalive
\* runs nowhere else; and the wait ends (the 20 ms settle delay and the rest
\* of the caller follow) only by a read that returned high.
C21_WatchdogInPollLoop == [][PollLoopStep]_vars

C21_Witness ==
    /\ call = "Clear" /\ todo = <<>> /\ polls = MaxPolls
    /\ Len(SelectSeq(trace, LAMBDA e : e[1] = "busy")) = 2

\* The 16 commands of Init in order: opcode, parameter block, and whether the
\* command is addressed to the Master alone ("M") or to both controllers ("B").
Init_Commands ==
    << <<AN_TM, AN_TM_V, "M">>, <<CMD66, CMD66_V, "B">>, <<PSR, PSR_V, "B">>,
       <<CDI, CDI_V, "B">>, <<TCON, TCON_V, "B">>, <<AGID, AGID_V, "B">>,
       <<PWS, PWS_V, "B">>, <<CCSET, CCSET_V, "B">>, <<TRES, TRES_V, "B">>,
       <<PWR_epd, PWR_V, "M">>, <<EN_BUF, EN_BUF_V, "M">>, <<BTST_P, BTST_P_V, "M">>,
       <<BOOST_VDDP_EN, BOOST_VDDP_EN_V, "M">>, <<BTST_N, BTST_N_V, "M">>,
       <<BUCK_BOOST_VDDN, BUCK_BOOST_VDDN_V, "M">>,
       <<TFT_VCOM_POWER, TFT_VCOM_POWER_V, "M">> >>

\* The bytes of one command as they appear on the bus: the opcode and then
\* each parameter, with the Master CS low and the Slave CS low only for "B".
OnBus(c) ==
    <<<<"spi", "cmd", c[1], 0, IF c[3] = "B" THEN 0 ELSE 1>>>>
    \o [i \in 1..Len(c[2]) |-> <<"spi", "dat", c[2][i], 0, IF c[3] = "B" THEN 0 ELSE 1>>]

RECURSIVE Init_Bus(_)
Init_Bus(k) == IF k = 0 THEN <<>> ELSE Init_Bus(k - 1) \o OnBus(Init_Commands[k])

\* The writes and delays of the reset sequence, without the chip-select levels.
Reset_Ops == [i \in 1..Len(Reset_Trace) |-> SubSeq(Reset_Trace[i], 1, 3)]

\* C22: whatever state Init is entered in, it performs the reset sequence and
\* then transmits the 16 commands AN_TM .. TFT_VCOM_POWER in order, each as
\* its opcode and its parameter block; AN_TM and the seven commands from PWR
\* on are on the bus with only the Master CS low, the other eight with both.
C22_InitFixedTrace ==
    call = "Init" =>
        /\ \A i \in 1..Min(Len(trace), Len(Reset_Ops)) : SubSeq(trace[i], 1, 3) = Reset_Ops[i]
        /\ IsPrefix(SpiEvents, Init_Bus(Len(Init_Commands)))
        /\ (todo = <<>> => SpiEvents = Init_Bus(Len(Init_Commands)))

IsDcWrite(e) == e[1] = "pin" /\ e[2] = "DC"
SelectsChip(e) == e[1] = "pin" /\ e[2] \in {"CS_M", "CS_S"} /\ e[3] = 0

\* C31: the command/data line stays at the high level DEV_Module_Init gave it
\* and no driver operation writes it; on the bus an opcode is the byte that
\* directly follows a chip-select write to low, and a parameter or data byte
\* never is: it follows another byte (or, in WriteLine, the bytes of the
\* earlier calls of the frame session).
C31_DcLineUntouched ==
    /\ pin["DC"] = 1 /\ pre["DC"] = 1
    /\ \A i \in 1..Len(trace) :
          /\ ~IsDcWrite(trace[i])
          /\ (IsSpi(trace[i]) /\ trace[i][2] = "cmd") => (i > 1 /\ SelectsChip(trace[i - 1]))
          /\ (IsSpi(trace[i]) /\ trace[i][2] = "dat") =>
                 IF i = 1 THEN InWriteLine ELSE IsSpi(trace[i - 1])

C31_Witness ==
    /\ Returned("Sleep") /\ pre["CS_S"] = 0 /\ pin["DC"] = 1
    /\ BytesOf(SpiEvents) = <<DSLP, 165>>

\* Pin levels with both chip selects high and every other pin as in p.
Deselected(p) == [p EXCEPT !["CS_M"] = 1, !["CS_S"] = 1]

\* C32: EndFrameM and EndFrameS are the same operation and are idempotent:
\* from any pin state either one writes both chip selects high and nothing
\* else, transmits no byte, and returns with both chip selects high and every
\* other pin as on entry; entered with both already high it changes no level.
C32_EndFrameIdempotent ==
    /\ EPD_13IN3E_EndFrameM = EPD_13IN3E_EndFrameS
    /\ call \in {"EndFrameM", "EndFrameS"} =>
           /\ IsPrefix(trace, << <<"pin", "CS_M", 1, 1, pre["CS_S"]>>, <<"pin", "CS_S", 1, 1, 1>> >>)
           /\ \A q \in Pins \ {"CS_M", "CS_S"} : pin[q] = pre[q]
           /\ (todo = <<>> => pin = Deselected(pre) /\ Len(trace) = 2)
           /\ (pre = Deselected(pre) => pin = pre)

C32_Witness ==
    /\ Returned("EndFrameS") /\ pre = Deselected(pre) /\ pin = pre
    /\ pre["PWR"] = 0

\* The panel's size in pixels, and the sketch's copies of it.
EPD_13IN3E_WIDTH == 1200
EPD_13IN3E_HEIGHT == 1600
EPD_WIDTH == 1200
EPD_HEIGHT_px == 1600

BigEndian16(hi, lo) == hi * 256 + lo

\* Positions of the TRES opcode in the trace.
TresAt == {i \in 1..Len(trace) : trace[i] = <<"spi", "cmd", TRES, 0, 0>>}

\* C33: the TRES command of Init carries the parameters 0x04 0xB0 0x06 0x40,
\* which read as two big-endian 16-bit numbers are the panel's width 1200 and
\* height 1600; a streamed frame is height lines of width/4 bytes for each of
\* the two controllers, at two pixels per byte width x height pixels.
C33_ResolutionBytes ==
    /\ BigEndian16(TRES_V[1], TRES_V[2]) = EPD_13IN3E_WIDTH
    /\ BigEndian16(TRES_V[3], TRES_V[4]) = EPD_13IN3E_HEIGHT
    /\ EPD_WIDTH = EPD_13IN3E_WIDTH /\ EPD_HEIGHT_px = EPD_13IN3E_HEIGHT
    /\ EPD_HEIGHT_px * ((EPD_WIDTH \div 4) * 2) * 2 = EPD_13IN3E_WIDTH * EPD_13IN3E_HEIGHT
    /\ call = "Init" =>
           /\ Cardinality(TresAt) <= 1
           /\ \A i \in TresAt : \A k \in 1..Min(4, Len(trace) - i) :
                  trace[i + k] = <<"spi", "dat", <<4, 176, 6, 64>>[k], 0, 0>>
           /\ (todo = <<>> => \E i \in TresAt : i + 4 <= Len(trace))

C33_Witness ==
    /\ call = "Init" /\ Len(trace) > 5
    /\ trace[Len(trace)] = <<"spi", "dat", 64, 0, 0>>
    /\ Len(trace) - 4 \in TresAt

PowerOn_Trace ==
    << <<"pin", "PWR", 1, pre["CS_M"], pre["CS_S"]>>,
       <<"delay", "ms", 100, pre["CS_M"], pre["CS_S"]>> >>

\* C34: PowerOn writes the power-enable line high and then waits 100 ms, and
\* does nothing else: no SPI byte, no write of the reset line or of a chip
\* select, no bus set-up; every pin but the power-enable line keeps its level,
\* and when that line was already high no pin level changes.
C34_PowerOnOnlyPower ==
    call = "PowerOn" =>
        /\ IsPrefix(trace, PowerOn_Trace)
        /\ (todo = <<>> => trace = PowerOn_Trace)
        /\ \A q \in Pins \ {"PWR"} : pin[q] = pre[q]
        /\ (pre["PWR"] = 1 => pin = pre)

C34_Witness ==
    /\ Returned("PowerOn") /\ pre["PWR"] = 1 /\ pin = pre
    /\ pre["CS_M"] = 0 /\ pre["CS_S"] = 0

\* WriteLineM or WriteLineS has been called with a null buffer.
NullLine == InWriteLine /\ arg.null

\* C36: WriteLineM and WriteLineS called with a null buffer return at once:
\* no byte is transmitted and no pin is written, and the frame session, its
\* line count and the count of bytes sent to its controller stay as they were.
C36_NullLineNoOp ==
    [][NullLine' => /\ todo' = <<>> /\ trace' = <<>> /\ pin' = pin
                    /\ sess' = sess /\ lines' = lines /\ sessBytes' = sessBytes]_vars

C36_Witness ==
    /\ call = "WriteLineS" /\ arg.null /\ todo = <<>> /\ trace = <<>>
    /\ sess = "S" /\ lines = 1 /\ sessBytes = PanelWidth \div 4


(***************************************************************************)
(* SpecCycle: the power cycle PowerOn, Init, Clear(white), RefreshNow,     *)
(* Sleep, PowerOff, PowerOn, Init, repeated.  It may start from any pin    *)
(* state the driver can be left in between two public calls.               *)
(***************************************************************************)
CycleScript ==
    <<"PowerOn", "Init", "Clear", "RefreshNow", "Sleep", "PowerOff", "PowerOn", "Init">>

CycleBody(f) ==
    CASE f = "PowerOn" -> EPD_13IN3E_PowerOn
      [] f = "Init" -> EPD_13IN3E_Init
      [] f = "Clear" -> EPD_13IN3E_Clear(EPD_13IN3E_WHITE)
      [] f = "RefreshNow" -> EPD_13IN3E_RefreshNow
      [] f = "Sleep" -> EPD_13IN3E_Sleep
      [] f = "PowerOff" -> EPD_13IN3E_PowerOff

CycleArg(f) == IF f = "Clear" THEN ColorArg(EPD_13IN3E_WHITE) ELSE NullBuffer

\* Pin levels between two public calls: RST and DC are high, the rest is free.
IdlePins == {p \in [Pins -> {0, 1}] : p["RST"] = 1 /\ p["DC"] = 1}

CycleInit ==
    /\ pin \in IdlePins
    /\ todo = <<>> /\ trace = <<>> /\ call = "none" /\ pre = pin
    /\ arg = NullBuffer
    /\ polls = 0 /\ sess = "none" /\ lines = 0 /\ sessBytes = 0 /\ ready = FALSE
    /\ AppIdle /\ LoopIdle
    /\ cyc = 1 /\ rep = 1 /\ firstTrace = <<>> /\ firstEnd = pin

\* The pin writes and SPI bytes themselves, without the chip-select levels.
Written(e) == <<e[1], e[2], e[3]>>
IsOutput(e) == e[1] \in {"pin", "spi"}
Outputs(tr) == LET o == SelectSeq(tr, IsOutput) IN [i \in 1..Len(o) |-> Written(o[i])]

CycleCall ==
    /\ cyc \in 1..Len(CycleScript)
    /\ Enter(CycleScript[cyc], CycleArg(CycleScript[cyc]), CycleBody(CycleScript[cyc]), TRUE)
    /\ cyc' = cyc + 1
    /\ UNCHANGED <<rep, firstTrace, firstEnd>>

\* A repetition is over: remember the first one, start the next.
CycleRepeat ==
    /\ todo = <<>> /\ cyc = Len(CycleScript) + 1 /\ rep < MaxReps
    /\ firstTrace' = IF rep = 1 THEN Outputs(trace) ELSE firstTrace
    /\ firstEnd' = IF rep = 1 THEN pin ELSE firstEnd
    /\ trace' = <<>>
    /\ rep' = rep + 1
    /\ cyc' = 1
    /\ UNCHANGED <<pin, todo, call, pre, arg, polls, sess, lines, sessBytes, ready>>

NextCycle ==
    \/ (CycleCall /\ UNCHANGED <<app, loopv>>)
    \/ (CycleRepeat /\ UNCHANGED <<app, loopv>>)
    \/ (StepPin /\ UNCHANGED <<app, script, loopv>>)
    \/ (StepSpi /\ UNCHANGED <<app, script, loopv>>)
    \/ (StepDelay /\ UNCHANGED <<app, script, loopv>>)
    \/ (StepWdt /\ UNCHANGED <<app, script, loopv>>)
    \/ (ReadBusyLow /\ UNCHANGED <<app, script, loopv>>)
    \/ (ReadBusyHigh /\ UNCHANGED <<app, script, loopv>>)

SpecCycle == CycleInit /\ [][NextCycle]_vars

CycleDone == todo = <<>> /\ cyc = Len(CycleScript) + 1

\* C10: the power cycle accumulates no state: every later repetition writes
\* the same pins and SPI bytes in the same order as the first, and ends with
\* the same pin levels (both chip selects, reset, power enable).
C10_CycleRepeatable ==
    rep >= 2 =>
        /\ IsPrefix(Outputs(trace), firstTrace)
        /\ (CycleDone => Outputs(trace) = firstTrace /\ pin = firstEnd)

C10_Witness ==
    /\ rep = MaxReps /\ CycleDone /\ Len(firstTrace) > 0
    /\ Len(Outputs(trace)) = Len(firstTrace)
    /\ pin["PWR"] = 1 /\ pin["CS_M"] = 1 /\ pin["CS_S"] = 1

DeepSleepCmd(e) == e[1] = "spi" /\ e[2] = "cmd" /\ e[3] = DSLP

\* C11: PowerOff puts the panel to sleep only if it is not asleep already: in
\* the power cycle, where PowerOff directly follows Sleep, the deep-sleep
\* command is on the bus at most once per repetition; and PowerOff ends with a
\* settle delay followed by the power-enable line going low.
C11_PowerOffSleepsOnlyIfAwake ==
    call = "PowerOff" =>
        /\ Len(SelectSeq(trace, DeepSleepCmd)) <= 1
        /\ (todo = <<>> =>
                /\ pin["PWR"] = 0
                /\ trace[Len(trace) - 1][1] = "delay"
                /\ PowerCut(trace[Len(trace)]))


(***************************************************************************)
(* SpecUpd: updateDisplay, called again and again by loop().  The HTTP     *)
(* status, the stream's length and every short read are inputs.            *)
(***************************************************************************)
EPD_HEIGHT == PanelHeight

\* A frame is 2 * height * width/4 bytes; the server may send one byte more.
MaxStream == 2 * EPD_HEIGHT * BYTES_PER_LINE_HALF + 1

\* Stream contents: byte i has value i, so that every byte is recognisable.
StreamOfLength(n) == [i \in 1..n |-> i]

HttpCodes == {200, 404}

\* Mutant: the bytes read land in the buffer in reverse order.
ReadInto_Reversed(buf, n) ==
    [i \in 1..Max2(Len(buf), n) |-> IF i <= n THEN stream[n + 1 - i] ELSE buf[i]]

\* stream->readBytes(buffer, length) returning n: the first n bytes of the
\* buffer are overwritten.
ReadInto(buf, n) ==
    [i \in 1..Max2(Len(buf), n) |-> IF i <= n THEN stream[i] ELSE buf[i]]

Drop(q, n) == SubSeq(q, n + 1, Len(q))

AsBuffer(mem) == [null |-> FALSE, mem |-> mem]

\* Mutant: the error path powers the panel off before returning.
HttpGet_PowerOffOnError ==
    /\ todo = <<>>
    /\ \E code \in HttpCodes, n \in 0..MaxStream :
          /\ stream' = IF code = 200 THEN StreamOfLength(n) ELSE <<>>
          /\ upc' = IF code = 200 THEN "PowerOn" ELSE "PowerOff"
          /\ ret' = "none"
    /\ trace' = <<>>
    /\ line_buffer' = <<>> /\ y' = 0 /\ shortM' = -1 /\ shortS' = -1
    /\ master_bytes' = 0 /\ slave_bytes' = 0
    /\ UNCHANGED <<pin, todo, call, pre, arg, polls, sess, lines, sessBytes, ready>>

\* http.GET() and the early return
HttpGet ==
    /\ todo = <<>>
    /\ \E code \in HttpCodes, n \in 0..MaxStream :
          /\ stream' = IF code = 200 THEN StreamOfLength(n) ELSE <<>>
          /\ upc' = IF code = 200 THEN "PowerOn" ELSE "done"
          /\ ret' = IF code = 200 THEN "none" ELSE "false"
    /\ trace' = <<>>
    /\ line_buffer' = <<>> /\ y' = 0 /\ shortM' = -1 /\ shortS' = -1
    /\ master_bytes' = 0 /\ slave_bytes' = 0
    /\ UNCHANGED <<pin, todo, call, pre, arg, polls, sess, lines, sessBytes, ready>>

\* updateDisplay() called on its own, again and again
U_Get == upc \in {"idle", "done"} /\ HttpGet

U_PowerOn ==
    /\ upc = "PowerOn"
    /\ Enter("PowerOn", NullBuffer, EPD_13IN3E_PowerOn, TRUE)
    /\ upc' = "Init"
    /\ UNCHANGED <<stream, line_buffer, y, shortM, shortS, master_bytes, slave_bytes, ret>>

\* Mutant: updateDisplay goes from PowerOn straight to BeginFrameM.
U_Init_Skipped ==
    /\ upc = "Init" /\ todo = <<>>
    /\ upc' = "BeginFrameM"
    /\ UNCHANGED <<pin, todo, trace, call, pre, arg, polls, sess, lines, sessBytes, ready>>
    /\ UNCHANGED <<stream, line_buffer, y, shortM, shortS, master_bytes, slave_bytes, ret>>

U_Init ==
    /\ upc = "Init"
    /\ Enter("Init", NullBuffer, EPD_13IN3E_Init, TRUE)
    /\ upc' = "BeginFrameM"
    /\ UNCHANGED <<stream, line_buffer, y, shortM, shortS, master_bytes, slave_bytes, ret>>

U_BeginFrameM ==
    /\ upc = "BeginFrameM"
    /\ Enter("BeginFrameM", NullBuffer, EPD_13IN3E_BeginFrameM, TRUE)
    /\ master_bytes' = 0 /\ y' = 0
    /\ upc' = "LoopM"
    /\ UNCHANGED <<stream, line_buffer, shortM, shortS, slave_bytes, ret>>

\* One iteration of the Master loop that reads a whole line.  (The progress
\* print and the watchdog reset every 100 lines touch neither bus nor pins.)
U_LineM ==
    /\ upc = "LoopM" /\ y < EPD_HEIGHT
    /\ Len(stream) >= BYTES_PER_LINE_HALF
    /\ line_buffer' = ReadInto(line_buffer, BYTES_PER_LINE_HALF)
    /\ stream' = Drop(stream, BYTES_PER_LINE_HALF)
    /\ Enter("WriteLineM", AsBuffer(line_buffer'), EPD_13IN3E_WriteLineM(AsBuffer(line_buffer')), TRUE)
    /\ master_bytes' = master_bytes + BYTES_PER_LINE_HALF
    /\ y' = y + 1
    /\ UNCHANGED <<upc, shortM, shortS, slave_bytes, ret>>

\* Mutant: a short read returns false at once.
ShortM_ReturnAtOnce ==
    /\ upc = "LoopM" /\ y < EPD_HEIGHT /\ todo = <<>>
    /\ \E n \in 0..Min(BYTES_PER_LINE_HALF - 1, Len(stream)) :
          /\ line_buffer' = ReadInto(line_buffer, n)
          /\ stream' = Drop(stream, n)
    /\ shortM' = y
    /\ upc' = "done" /\ ret' = "false"
    /\ UNCHANGED <<pin, todo, trace, call, pre, arg, polls, sess, lines, sessBytes, ready>>
    /\ UNCHANGED <<y, shortS, master_bytes, slave_bytes>>

\* bytes_read != BYTES_PER_LINE_HALF: break
U_ShortM ==
    /\ upc = "LoopM" /\ y < EPD_HEIGHT /\ todo = <<>>
    /\ \E n \in 0..Min(BYTES_PER_LINE_HALF - 1, Len(stream)) :
          /\ line_buffer' = ReadInto(line_buffer, n)
          /\ stream' = Drop(stream, n)
    /\ shortM' = y
    /\ upc' = "EndFrameM"
    /\ UNCHANGED <<pin, todo, trace, call, pre, arg, polls, sess, lines, sessBytes, ready>>
    /\ UNCHANGED <<y, shortS, master_bytes, slave_bytes, ret>>

U_EndFrameM ==
    /\ upc = "EndFrameM" \/ (upc = "LoopM" /\ y = EPD_HEIGHT)
    /\ Enter("EndFrameM", NullBuffer, EPD_13IN3E_EndFrameM, TRUE)
    /\ upc' = "BeginFrameS"
    /\ UNCHANGED <<stream, line_buffer, y, shortM, shortS, master_bytes, slave_bytes, ret>>

U_BeginFrameS ==
    /\ upc = "BeginFrameS"
    /\ Enter("BeginFrameS", NullBuffer, EPD_13IN3E_BeginFrameS, TRUE)
    /\ slave_bytes' = 0 /\ y' = 0
    /\ upc' = "LoopS"
    /\ UNCHANGED <<stream, line_buffer, shortM, shortS, master_bytes, ret>>

\* Mutant: the Slave loop hands its lines to WriteLineM.
LineS_WritesMaster ==
    /\ upc = "LoopS" /\ y < EPD_HEIGHT
    /\ Len(stream) >= BYTES_PER_LINE_HALF
    /\ line_buffer' = ReadInto(line_buffer, BYTES_PER_LINE_HALF)
    /\ stream' = Drop(stream, BYTES_PER_LINE_HALF)
    /\ Enter("WriteLineM", AsBuffer(line_buffer'), EPD_13IN3E_WriteLineM(AsBuffer(line_buffer')), TRUE)
    /\ slave_bytes' = slave_bytes + BYTES_PER_LINE_HALF
    /\ y' = y + 1
    /\ UNCHANGED <<upc, shortM, shortS, master_bytes, ret>>

U_LineS ==
    /\ upc = "LoopS" /\ y < EPD_HEIGHT
    /\ Len(stream) >= BYTES_PER_LINE_HALF
    /\ line_buffer' = ReadInto(line_buffer, BYTES_PER_LINE_HALF)
    /\ stream' = Drop(stream, BYTES_PER_LINE_HALF)
    /\ Enter("WriteLineS", AsBuffer(line_buffer'), EPD_13IN3E_WriteLineS(AsBuffer(line_buffer')), TRUE)
    /\ slave_bytes' = slave_bytes + BYTES_PER_LINE_HALF
    /\ y' = y + 1
    /\ UNCHANGED <<upc, shortM, shortS, master_bytes, ret>>

U_ShortS ==
    /\ upc = "LoopS" /\ y < EPD_HEIGHT /\ todo = <<>>
    /\ \E n \in 0..Min(BYTES_PER_LINE_HALF - 1, Len(stream)) :
          /\ line_buffer' = ReadInto(line_buffer, n)
          /\ stream' = Drop(stream, n)
    /\ shortS' = y
    /\ upc' = "EndFrameS"
    /\ UNCHANGED <<pin, todo, trace, call, pre, arg, polls, sess, lines, sessBytes, ready>>
    /\ UNCHANGED <<y, shortM, master_bytes, slave_bytes, ret>>

U_EndFrameS ==
    /\ upc = "EndFrameS" \/ (upc = "LoopS" /\ y = EPD_HEIGHT)
    /\ Enter("EndFrameS", NullBuffer, EPD_13IN3E_EndFrameS, TRUE)
    /\ upc' = "Verify"
    /\ UNCHANGED <<stream, line_buffer, y, shortM, shortS, master_bytes, slave_bytes, ret>>

expected_bytes == EPD_HEIGHT * BYTES_PER_LINE_HALF

\* Mutant: || instead of &&.
TransferComplete_Either == master_bytes = expected_bytes \/ slave_bytes = expected_bytes

\* master_bytes == expected_bytes && slave_bytes == expected_bytes
TransferComplete == master_bytes = expected_bytes /\ slave_bytes = expected_bytes

U_Refresh ==
    /\ upc = "Verify" /\ TransferComplete
    /\ Enter("RefreshNow", NullBuffer, EPD_13IN3E_RefreshNow, TRUE)
    /\ upc' = "PowerOff"
    /\ UNCHANGED <<stream, line_buffer, y, shortM, shortS, master_bytes, slave_bytes, ret>>

U_Incomplete ==
    /\ upc = "Verify" /\ ~TransferComplete /\ todo = <<>>
    /\ upc' = "done" /\ ret' = "false"
    /\ UNCHANGED <<pin, todo, trace, call, pre, arg, polls, sess, lines, sessBytes, ready>>
    /\ UNCHANGED <<stream, line_buffer, y, shortM, shortS, master_bytes, slave_bytes>>

U_PowerOff ==
    /\ upc = "PowerOff"
    /\ Enter("PowerOff", NullBuffer, EPD_13IN3E_PowerOff, TRUE)
    /\ upc' = "ReturnTrue"
    /\ UNCHANGED <<stream, line_buffer, y, shortM, shortS, master_bytes, slave_bytes, ret>>

U_ReturnTrue ==
    /\ upc = "ReturnTrue" /\ todo = <<>>
    /\ upc' = "done" /\ ret' = "true"
    /\ UNCHANGED <<pin, todo, trace, call, pre, arg, polls, sess, lines, sessBytes, ready>>
    /\ UNCHANGED <<stream, line_buffer, y, shortM, shortS, master_bytes, slave_bytes>>

updateDisplay ==
    \/ U_Get \/ U_PowerOn \/ U_Init
    \/ U_BeginFrameM \/ U_LineM \/ U_ShortM \/ U_EndFrameM
    \/ U_BeginFrameS \/ U_LineS \/ U_ShortS \/ U_EndFrameS
    \/ U_Refresh \/ U_Incomplete \/ U_PowerOff \/ U_ReturnTrue

DrvStep == Step /\ UNCHANGED <<app, script, loopv>>

NextUpd ==
    \/ (U_Get /\ UNCHANGED <<script, loopv>>)
    \/ (U_PowerOn /\ UNCHANGED <<script, loopv>>)
    \/ (U_Init /\ UNCHANGED <<script, loopv>>)
    \/ (U_BeginFrameM /\ UNCHANGED <<script, loopv>>)
    \/ (U_LineM /\ UNCHANGED <<script, loopv>>)
    \/ (U_ShortM /\ UNCHANGED <<script, loopv>>)
    \/ (U_EndFrameM /\ UNCHANGED <<script, loopv>>)
    \/ (U_BeginFrameS /\ UNCHANGED <<script, loopv>>)
    \/ (U_LineS /\ UNCHANGED <<script, loopv>>)
    \/ (U_ShortS /\ UNCHANGED <<script, loopv>>)
    \/ (U_EndFrameS /\ UNCHANGED <<script, loopv>>)
    \/ (U_Refresh /\ UNCHANGED <<script, loopv>>)
    \/ (U_Incomplete /\ UNCHANGED <<script, loopv>>)
    \/ (U_PowerOff /\ UNCHANGED <<script, loopv>>)
    \/ (U_ReturnTrue /\ UNCHANGED <<script, loopv>>)
    \/ (StepPin /\ UNCHANGED <<app, script, loopv>>)
    \/ (StepSpi /\ UNCHANGED <<app, script, loopv>>)
    \/ (StepDelay /\ UNCHANGED <<app, script, loopv>>)
    \/ (StepWdt /\ UNCHANGED <<app, script, loopv>>)
    \/ (ReadBusyLow /\ UNCHANGED <<app, script, loopv>>)
    \/ (ReadBusyHigh /\ UNCHANGED <<app, script, loopv>>)

SpecUpd == Init /\ [][NextUpd]_vars


(***************************************************************************)
(* Properties of updateDisplay under SpecUpd / SpecUpdFair.                *)
(***************************************************************************)
\* The program keeps running: some step of it is always eventually taken.
SpecUpdFair == SpecUpd /\ WF_vars(NextUpd)

\* The write-RAM opcode as seen on the bus when only controller c is selected.
DtmEvent(c) == IF c = "M" THEN <<"spi", "cmd", 16, 0, 1>> ELSE <<"spi", "cmd", 16, 1, 0>>

FrameStarts(c) == {i \in 1..Len(trace) : trace[i] = DtmEvent(c)}

FrameStart(c) == CHOOSE i \in FrameStarts(c) : \A j \in FrameStarts(c) : i <= j

IsData(e) == e[1] = "spi" /\ e[2] = "dat"

\* Number of data bytes that follow position k without interruption.
RunAfter(k) ==
    Cardinality({j \in (k + 1)..Len(trace) : \A t \in (k + 1)..j : IsData(trace[t])})

\* The data bytes clocked into controller c after its write-RAM opcode.
FrameData(c) ==
    IF FrameStarts(c) = {} THEN <<>>
    ELSE [i \in 1..RunAfter(FrameStart(c)) |-> trace[FrameStart(c) + i][3]]

\* The frame of controller c was closed by CS_ALL(1) right after its data.
FrameClosed(c) ==
    /\ FrameStarts(c) # {}
    /\ LET e == FrameStart(c) + RunAfter(FrameStart(c))
       IN  /\ Len(trace) >= e + 2
           /\ trace[e + 1] = <<"pin", "CS_M", 1, 1, IF c = "M" THEN 1 ELSE 0>>
           /\ trace[e + 2] = <<"pin", "CS_S", 1, 1, 1>>

BusyRead(e) == e[1] = "busy"

ShortRead == shortM >= 0 \/ shortS >= 0

C7_Safety ==
    /\ shortM >= 0 =>
          /\ Len(FrameData("M")) = shortM * BYTES_PER_LINE_HALF
          /\ (upc = "done" => FrameClosed("M") /\ ret = "false")
    /\ shortS >= 0 =>
          /\ Len(FrameData("S")) = shortS * BYTES_PER_LINE_HALF
          /\ (upc = "done" => FrameClosed("S") /\ ret = "false")
    /\ ShortRead => ~BusyPending /\ SelectSeq(trace, BusyRead) = <<>>
    /\ (ShortRead /\ upc = "done") => pin["CS_M"] = 1 /\ pin["CS_S"] = 1

\* C7: after a short read at Master line y the Master has received exactly
\* the y whole lines before it, EndFrameM still closes the frame (both CS
\* high), no busy wait is entered, and updateDisplay returns false; likewise
\* for a short read in the Slave half with EndFrameS.
C7_TruncatedStream ==
    /\ []C7_Safety
    /\ (ShortRead ~> (upc = "done" /\ ret = "false"))

C7_Witness ==
    /\ upc = "done" /\ ret = "false" /\ shortM = EPD_HEIGHT \div 2 /\ shortS = -1
    /\ Len(FrameData("S")) = expected_bytes

RefreshOpcodeSent ==
    \E i \in 1..Len(trace) :
        IsSpi(trace[i]) /\ trace[i][2] = "cmd" /\ trace[i][3] \in {4, 18}

FullFrame(c) == Len(FrameData(c)) = EPD_HEIGHT * BYTES_PER_LINE_HALF

\* C8: the power-on / display-refresh opcodes are sent only after exactly
\* height lines went to the Master and exactly height lines to the Slave in
\* this call; if either half is short none of them is sent and the result is
\* false; the result is true only once RefreshNow has run to its last command.
C8_RefreshOnlyWhenComplete ==
    /\ RefreshOpcodeSent => FullFrame("M") /\ FullFrame("S")
    /\ (upc = "done" /\ ~(FullFrame("M") /\ FullFrame("S"))) =>
           ret = "false" /\ ~RefreshOpcodeSent
    /\ ret = "true" =>
           /\ FullFrame("M") /\ FullFrame("S")
           /\ PowerOffSent /\ Len(SelectSeq(trace, BusyRead)) = 2

C8_Witness == upc = "done" /\ ret = "true" /\ stream = <<>>

\* The bytes clocked into the Master followed by those clocked into the Slave.
Forwarded == FrameData("M") \o FrameData("S")

\* The Slave frame is opened only after the whole Master half was forwarded.
SlaveAfterWholeMaster == FrameStarts("S") # {} => Len(FrameData("M")) = expected_bytes

\* C16: while every read delivers a whole line, the bytes forwarded so far,
\* Master's then Slave's, are the stream's first bytes in stream order (byte i
\* of the stream has value i); the first height * width/4 of them go to the
\* Master and the next height * width/4 to the Slave, and when updateDisplay
\* returns true the two halves together are the first 2 * height * width/4
\* bytes of the stream, which is the whole stream when it has that length.
C16_StreamForwardedInOrder ==
    /\ ~ShortRead =>
           /\ \A i \in 1..Len(Forwarded) : Forwarded[i] = i
           /\ SlaveAfterWholeMaster
           /\ Len(FrameData("M")) <= expected_bytes /\ Len(FrameData("S")) <= expected_bytes
    /\ (upc = "done" /\ ret = "true") =>
           /\ ~ShortRead
           /\ FrameData("M") = [i \in 1..expected_bytes |-> i]
           /\ FrameData("S") = [i \in 1..expected_bytes |-> expected_bytes + i]
           /\ Len(stream) <= 1

C16_Witness ==
    /\ upc = "done" /\ ret = "true" /\ stream = <<>> /\ ~ShortRead
    /\ Forwarded = StreamOfLength(2 * EPD_HEIGHT * BYTES_PER_LINE_HALF)

(***************************************************************************)
(* SpecFair: Spec with a processor that keeps executing the running driver *)
(* function and a panel whose busy line is high infinitely often.          *)
(***************************************************************************)
SpecFair ==
    /\ Spec
    /\ WF_vars(DrvStep)
    /\ SF_vars(ReadBusyHigh /\ UNCHANGED <<app, script, loopv>>)

CmdSent(b) ==
    \E i \in 1..Len(trace) : IsSpi(trace[i]) /\ trace[i][2] = "cmd" /\ trace[i][3] = b

C5_Safety ==
    call = "RefreshNow" =>
        /\ (CmdSent(18) => Len(SelectSeq(trace, BusyRead)) >= 1)
        /\ (CmdSent(2) => Len(SelectSeq(trace, BusyRead)) >= 2)
        /\ (todo = <<>> => CmdSent(2) /\ Len(SelectSeq(trace, BusyRead)) = 2)
        /\ ((todo # <<>> /\ Head(todo)[1] = "busy") => ENABLED ReadBusyLow)

\* C5: the busy wait is an unbounded poll.  RefreshNow sends 0x12 only after
\* a high read of busy, 0x02 only after a second one, and returns only after
\* both (a low read can always be followed by another); with a panel whose
\* busy line is eventually read high at each wait, every RefreshNow runs to
\* completion through 0x02.
C5_UnboundedBusyWait ==
    /\ []C5_Safety
    /\ ((call = "RefreshNow" /\ todo # <<>>) ~> (Returned("RefreshNow") /\ CmdSent(2)))

C5_Witness ==
    /\ call = "RefreshNow" /\ polls = MaxPolls /\ ~CmdSent(18)
    /\ todo # <<>> /\ Head(todo)[1] = "busy"


(***************************************************************************)
(* SpecApp: the sketch.  setup() shows the configuration screen when the   *)
(* portal is needed and then the boot screen; loop() asks the server for   *)
(* the image hash and calls updateDisplay when it is new.                  *)
(***************************************************************************)
\* Rows per colour band (266 on the real panel).
BandRows == 1

\* band_index = y / 266; if (band_index > 5) band_index = 5
band_index(yy) == IF yy \div BandRows > 5 THEN 5 ELSE yy \div BandRows

band_color(b) ==
    IF b = 0 THEN EPD_13IN3E_BLACK
    ELSE IF b = 1 THEN EPD_13IN3E_WHITE
    ELSE IF b = 2 THEN EPD_13IN3E_YELLOW
    ELSE IF b = 3 THEN EPD_13IN3E_RED
    ELSE IF b = 4 THEN EPD_13IN3E_BLUE
    ELSE EPD_13IN3E_GREEN

text_color(bc) ==
    IF bc = EPD_13IN3E_BLACK THEN EPD_13IN3E_WHITE
    ELSE IF bc = EPD_13IN3E_WHITE THEN EPD_13IN3E_BLACK
    ELSE IF bc = EPD_13IN3E_YELLOW THEN EPD_13IN3E_BLACK
    ELSE EPD_13IN3E_WHITE

\* line[byte_idx] = (line[byte_idx] & 0x0F) | (text_color << 4) for an even
\* pixel, (line[byte_idx] & 0xF0) | (text_color & 0x0F) for an odd one
SetPixel(line, pixel_x, c) ==
    LET byte_idx == pixel_x \div 2
    IN  IF byte_idx >= BYTES_PER_LINE_HALF THEN line
        ELSE IF pixel_x % 2 = 0
             THEN [line EXCEPT ![byte_idx + 1] = (line[byte_idx + 1] % 16) + ((c * 16) % 256)]
             ELSE [line EXCEPT ![byte_idx + 1] = (line[byte_idx + 1] \div 16) * 16 + (c % 16)]

RECURSIVE DrawPixels(_, _, _)
DrawPixels(line, pixels, c) ==
    IF pixels = <<>> THEN line
    ELSE DrawPixels(SetPixel(line, Head(pixels), c), Tail(pixels), c)

\* The pixels of one half line that the glyph rows of the band's text light
\* up: none outside the text zone or where the font row is blank.  Text and
\* font are inputs; these are the cases the scaled line can show.
GlyphPixels == {<<>>, <<1, 2>>}

\* One rendered half line: the band's packed colour, then the text pixels.
RenderLine(yy, pixels) ==
    LET bc == band_color(band_index(yy))
        packed_color == BitOr((bc * 16) % 256, bc)
    IN  DrawPixels([i \in 1..BYTES_PER_LINE_HALF |-> packed_color], pixels, text_color(bc))

\* setup(): the configuration screen is shown (forced by a double reset, or
\* because no network could be joined)
S_Config ==
    /\ upc = "setup" /\ screen = "none" /\ todo = <<>>
    /\ screen' = "config" /\ upc' = "S_PowerOn"
    /\ trace' = <<>>
    /\ UNCHANGED <<pin, todo, call, pre, arg, polls, sess, lines, sessBytes, ready>>
    /\ UNCHANGED <<stream, line_buffer, y, shortM, shortS, master_bytes, slave_bytes, ret>>
    /\ UNCHANGED <<last_image_hash, response, token_before, new_image, image, bootv, splashv>>

\* setup(): connected, the boot screen is shown
S_Boot ==
    /\ upc = "setup" /\ screen \in {"none", "config"} /\ todo = <<>>
    /\ screen' = "boot" /\ upc' = "S_PowerOn"
    /\ trace' = <<>>
    /\ UNCHANGED <<pin, todo, call, pre, arg, polls, sess, lines, sessBytes, ready>>
    /\ UNCHANGED <<stream, line_buffer, y, shortM, shortS, master_bytes, slave_bytes, ret>>
    /\ UNCHANGED <<last_image_hash, response, token_before, new_image, image, bootv, splashv>>

\* A step of setup() or DisplayTextScreen that is one driver call.
SplashCall(at, name, ops, to) ==
    /\ upc = at
    /\ Enter(name, NullBuffer, ops, TRUE)
    /\ upc' = to
    /\ UNCHANGED <<stream, line_buffer, y, shortM, shortS, master_bytes, slave_bytes, ret>>
    /\ UNCHANGED loopv

S_PowerOn == SplashCall("S_PowerOn", "PowerOn", EPD_13IN3E_PowerOn, "S_Init")

S_Init == SplashCall("S_Init", "Init", EPD_13IN3E_Init, "T_Init")

\* EPD_13IN3E_DisplayTextScreen
T_Init == SplashCall("T_Init", "Init", EPD_13IN3E_Init, "T_BeginFrameM")

T_BeginFrameM ==
    /\ upc = "T_BeginFrameM"
    /\ Enter("BeginFrameM", NullBuffer, EPD_13IN3E_BeginFrameM, TRUE)
    /\ y' = 0 /\ upc' = "T_LoopM"
    /\ UNCHANGED <<stream, line_buffer, shortM, shortS, master_bytes, slave_bytes, ret>>
    /\ UNCHANGED loopv

T_LineM ==
    /\ upc = "T_LoopM" /\ y < PanelHeight
    /\ \E pixels \in GlyphPixels :
          /\ line_buffer' = RenderLine(y, pixels)
          /\ Enter("WriteLineM", AsBuffer(line_buffer'), EPD_13IN3E_WriteLineM(AsBuffer(line_buffer')), TRUE)
    /\ y' = y + 1
    /\ UNCHANGED <<upc, stream, shortM, shortS, master_bytes, slave_bytes, ret>>
    /\ UNCHANGED loopv

T_EndFrameM ==
    /\ y = PanelHeight
    /\ SplashCall("T_LoopM", "EndFrameM", EPD_13IN3E_EndFrameM, "T_BeginFrameS")

T_BeginFrameS ==
    /\ upc = "T_BeginFrameS"
    /\ Enter("BeginFrameS", NullBuffer, EPD_13IN3E_BeginFrameS, TRUE)
    /\ y' = 0 /\ upc' = "T_LoopS"
    /\ UNCHANGED <<stream, line_buffer, shortM, shortS, master_bytes, slave_bytes, ret>>
    /\ UNCHANGED loopv

T_LineS ==
    /\ upc = "T_LoopS" /\ y < PanelHeight
    /\ \E pixels \in GlyphPixels :
          /\ line_buffer' = RenderLine(y, pixels)
          /\ Enter("WriteLineS", AsBuffer(line_buffer'), EPD_13IN3E_WriteLineS(AsBuffer(line_buffer')), TRUE)
    /\ y' = y + 1
    /\ UNCHANGED <<upc, stream, shortM, shortS, master_bytes, slave_bytes, ret>>
    /\ UNCHANGED loopv

T_EndFrameS ==
    /\ y = PanelHeight
    /\ SplashCall("T_LoopS", "EndFrameS", EPD_13IN3E_EndFrameS, "T_Refresh")

T_Refresh ==
    SplashCall("T_Refresh", "RefreshNow", EPD_13IN3E_RefreshNow,
               IF screen = "boot" THEN "S_Delay" ELSE "S_PowerOff")

\* delay(1000) after the boot screen
S_Delay ==
    /\ upc = "S_Delay" /\ todo = <<>>
    /\ trace' = Append(trace, Event(DEV_Delay_ms(1000), pin))
    /\ upc' = "S_PowerOff"
    /\ UNCHANGED <<pin, todo, call, pre, arg, polls, sess, lines, sessBytes, ready>>
    /\ UNCHANGED <<stream, line_buffer, y, shortM, shortS, master_bytes, slave_bytes, ret>>
    /\ UNCHANGED loopv

S_PowerOff == SplashCall("S_PowerOff", "PowerOff", EPD_13IN3E_PowerOff, "S_Return")

\* the configuration portal follows the configuration screen, loop() the boot screen
S_Return ==
    /\ upc = "S_Return" /\ todo = <<>>
    /\ upc' = IF screen = "config" THEN "setup" ELSE "loop"
    /\ UNCHANGED drv
    /\ UNCHANGED <<stream, line_buffer, y, shortM, shortS, master_bytes, slave_bytes, ret>>
    /\ UNCHANGED loopv

\* sizeof(last_image_hash) (33 in the sketch): the token keeps HashBuf - 1 characters.
HashBuf == 3

HashChars == {"a", "b"}

Strings(n) == UNION {[1..k -> HashChars] : k \in 0..n}

\* Answers to GET /api/image/info: the status, and whether the body holds a
\* "hash" string and which.  The server's hash may be longer than the token.
Responses ==
    {[code |-> c, has |-> TRUE, hash |-> v] : c \in HttpCodes, v \in Strings(HashBuf)}
    \cup {[code |-> c, has |-> FALSE, hash |-> <<>>] : c \in HttpCodes}

\* parseJsonValue(response, "hash"): the value, or "" when the key is missing
parseJsonValue(payload) == IF payload.has THEN payload.hash ELSE <<>>

\* strncpy(dst, src, n); dst[n] = '\0'
strncpy(src, n) == SubSeq(src, 1, Min(Len(src), n))

\* Mutant: the HTTP status is not looked at.
NewImage_AnyStatus(r, stored) ==
    /\ Len(parseJsonValue(r)) > 0
    /\ parseJsonValue(r) # stored

\* checkForNewImage's result: 200, a non-empty hash, strcmp(...) != 0
NewImage(r, stored) ==
    /\ r.code = 200
    /\ Len(parseJsonValue(r)) > 0
    /\ parseJsonValue(r) # stored

\* Mutant: a lost connection also forgets the stored token.
L_WifiDown_TokenForgotten ==
    /\ upc \in {"loop", "retry"} /\ todo = <<>>
    /\ upc' = "retry"
    /\ last_image_hash' = <<>>
    /\ UNCHANGED drv
    /\ UNCHANGED <<stream, line_buffer, y, shortM, shortS, master_bytes, slave_bytes, ret>>
    /\ UNCHANGED <<screen, response, token_before, new_image, image, bootv, splashv>>

\* loop(): WiFi.status() != WL_CONNECTED: delay(5000); return
L_WifiDown ==
    /\ upc \in {"loop", "retry"} /\ todo = <<>>
    /\ upc' = "retry"
    /\ UNCHANGED drv
    /\ UNCHANGED <<stream, line_buffer, y, shortM, shortS, master_bytes, slave_bytes, ret>>
    /\ UNCHANGED loopv

\* loop(): checkForNewImage(), and the if on its result
checkForNewImage ==
    /\ upc \in {"loop", "retry"} /\ todo = <<>>
    /\ \E r \in Responses :
          /\ response' = r
          /\ token_before' = last_image_hash
          /\ last_image_hash' = IF NewImage(r, last_image_hash)
                                THEN strncpy(parseJsonValue(r), HashBuf - 1)
                                ELSE last_image_hash
          /\ new_image' = IF NewImage(r, last_image_hash) THEN "true" ELSE "false"
          /\ image' = IF ~NewImage(r, last_image_hash) THEN image
                       ELSE [hash |-> parseJsonValue(r),
                             state |-> IF image = [hash |-> parseJsonValue(r), state |-> "failed"]
                                       THEN "again" ELSE "pending"]
          /\ upc' = IF NewImage(r, last_image_hash) THEN "update" ELSE "done"
    /\ UNCHANGED <<screen, bootv, splashv>>
    /\ UNCHANGED drv
    /\ UNCHANGED <<stream, line_buffer, y, shortM, shortS, master_bytes, slave_bytes, ret>>

\* loop(): updateDisplay() is called; the locals of checkForNewImage are gone
L_Update ==
    /\ upc = "update"
    /\ HttpGet
    /\ response' = NoResponse /\ token_before' = <<>>
    /\ UNCHANGED <<screen, last_image_hash, new_image, image, bootv, splashv>>

\* loop(): the power-management cycle that ends an iteration (watchdog
\* reset, delays, light sleep); the locals of the iteration are gone
L_Sleep ==
    /\ upc = "done" /\ todo = <<>>
    /\ upc' = "loop"
    /\ trace' = <<>>
    /\ stream' = <<>> /\ line_buffer' = <<>> /\ y' = 0 /\ shortM' = -1 /\ shortS' = -1
    /\ master_bytes' = 0 /\ slave_bytes' = 0 /\ ret' = "none"
    /\ response' = NoResponse /\ token_before' = <<>> /\ new_image' = "none"
    /\ image' = IF ret = "none" THEN image
                 ELSE [image EXCEPT !.state = IF ret = "true" THEN "shown" ELSE "failed"]
    /\ UNCHANGED <<pin, todo, call, pre, arg, polls, sess, lines, sessBytes, ready>>
    /\ UNCHANGED <<screen, last_image_hash, bootv, splashv>>

NextApp ==
    \/ (S_Config /\ UNCHANGED script)
    \/ (S_Boot /\ UNCHANGED script)
    \/ (S_PowerOn /\ UNCHANGED script)
    \/ (S_Init /\ UNCHANGED script)
    \/ (T_Init /\ UNCHANGED script)
    \/ (T_BeginFrameM /\ UNCHANGED script)
    \/ (T_LineM /\ UNCHANGED script)
    \/ (T_EndFrameM /\ UNCHANGED script)
    \/ (T_BeginFrameS /\ UNCHANGED script)
    \/ (T_LineS /\ UNCHANGED script)
    \/ (T_EndFrameS /\ UNCHANGED script)
    \/ (T_Refresh /\ UNCHANGED script)
    \/ (S_Delay /\ UNCHANGED script)
    \/ (S_PowerOff /\ UNCHANGED script)
    \/ (S_Return /\ UNCHANGED script)
    \/ (L_WifiDown /\ UNCHANGED script)
    \/ (checkForNewImage /\ UNCHANGED script)
    \/ (L_Update /\ UNCHANGED script)
    \/ (L_Sleep /\ UNCHANGED script)
    \/ (U_PowerOn /\ UNCHANGED <<script, loopv>>)
    \/ (U_Init /\ UNCHANGED <<script, loopv>>)
    \/ (U_BeginFrameM /\ UNCHANGED <<script, loopv>>)
    \/ (U_LineM /\ UNCHANGED <<script, loopv>>)
    \/ (U_ShortM /\ UNCHANGED <<script, loopv>>)
    \/ (U_EndFrameM /\ UNCHANGED <<script, loopv>>)
    \/ (U_BeginFrameS /\ UNCHANGED <<script, loopv>>)
    \/ (U_LineS /\ UNCHANGED <<script, loopv>>)
    \/ (U_ShortS /\ UNCHANGED <<script, loopv>>)
    \/ (U_EndFrameS /\ UNCHANGED <<script, loopv>>)
    \/ (U_Refresh /\ UNCHANGED <<script, loopv>>)
    \/ (U_Incomplete /\ UNCHANGED <<script, loopv>>)
    \/ (U_PowerOff /\ UNCHANGED <<script, loopv>>)
    \/ (U_ReturnTrue /\ UNCHANGED <<script, loopv>>)
    \/ (StepPin /\ UNCHANGED <<app, script, loopv>>)
    \/ (StepSpi /\ UNCHANGED <<app, script, loopv>>)
    \/ (StepDelay /\ UNCHANGED <<app, script, loopv>>)
    \/ (StepWdt /\ UNCHANGED <<app, script, loopv>>)
    \/ (ReadBusyLow /\ UNCHANGED <<app, script, loopv>>)
    \/ (ReadBusyHigh /\ UNCHANGED <<app, script, loopv>>)

\* After DEV_Module_Init, at the point of setup() where the screens are shown.
AppInit ==
    /\ DrvInit /\ ScriptIdle /\ LoopIdle
    /\ upc = "setup" /\ stream = <<>> /\ line_buffer = <<>> /\ y = 0
    /\ shortM = -1 /\ shortS = -1 /\ master_bytes = 0 /\ slave_bytes = 0 /\ ret = "none"

SpecApp == AppInit /\ [][NextApp]_vars


(***************************************************************************)
(* Properties of the sketch under SpecApp.  The trace holds the events of  *)
(* the running screen or updateDisplay call.                               *)
(***************************************************************************)
\* The Slave has been selected alone (not by a broadcast).
SlaveSelected == \E i \in 1..Len(trace) : trace[i] = <<"pin", "CS_S", 0, 1, 0>>

MasterCalls == {"BeginFrameM", "WriteLineM", "EndFrameM"}
SlaveCalls == {"BeginFrameS", "WriteLineS", "EndFrameS"}

\* A byte clocked out with one chip select low and the other high.
MasterOnly(e) == e[1] = "spi" /\ e[4] = 0 /\ e[5] = 1
SlaveOnly(e) == e[1] = "spi" /\ e[4] = 1 /\ e[5] = 0

\* Everything on the bus since the last write-RAM opcode is pixel data.
OnlyDataSinceBeginFrame ==
    (sess # "none" /\ FrameStarts(sess) # {}) =>
        \A i \in (FrameStart(sess) + 1)..Len(trace) : IsData(trace[i])

\* C15: in updateDisplay and in the splash screens the two halves are
\* programmed one after the other: while BeginFrameM, a WriteLineM or EndFrameM
\* runs the Slave has not been selected yet; BeginFrameS, every WriteLineS and
\* EndFrameS run only after the Master frame was closed by EndFrameM (the
\* trace is empty only before the first call of a run); no byte goes to the
\* Master alone after one went to the Slave alone; and between a BeginFrame
\* and its EndFrame nothing but WriteLine data is on the bus.
C15_PhasesNotInterleaved ==
    /\ call \in MasterCalls => (FrameStarts("S") = {} /\ ~SlaveSelected)
    /\ (call \in SlaveCalls /\ trace # <<>>) => FrameClosed("M")
    /\ \A i \in {k \in 1..Len(trace) : SlaveOnly(trace[k])} :
           \A j \in {k \in 1..Len(trace) : MasterOnly(trace[k])} : j < i
    /\ OnlyDataSinceBeginFrame

C15_Witness ==
    /\ screen = "boot" /\ upc = "Verify" /\ todo = <<>>
    /\ FullFrame("M") /\ FullFrame("S") /\ FrameClosed("S")

\* Positions of loop() at which updateDisplay has been called and not returned.
InUpdateDisplay ==
    upc \in {"PowerOn", "Init", "BeginFrameM", "LoopM", "EndFrameM", "BeginFrameS",
             "LoopS", "EndFrameS", "Verify", "PowerOff", "ReturnTrue"}

\* The answer was 200 with a non-empty hash different from the stored token.
HashIsNew ==
    /\ response.code = 200
    /\ response.has /\ response.hash # <<>>
    /\ response.hash # token_before

\* C17: checkForNewImage returns true exactly when the answer is 200 with a
\* non-empty hash that differs from the stored token, and false otherwise,
\* leaving the token as it was; loop() calls updateDisplay next exactly when
\* the result was true, so updateDisplay never runs (or has returned) in an
\* iteration whose check did not return true.
C17_CheckDecidesUpdate ==
    /\ response # NoResponse =>
           /\ new_image = (IF HashIsNew THEN "true" ELSE "false")
           /\ (new_image = "false" => last_image_hash = token_before)
           /\ upc = (IF new_image = "true" THEN "update" ELSE "done")
    /\ (InUpdateDisplay \/ ret # "none") => new_image = "true"
    /\ (upc = "update") = (response # NoResponse /\ new_image = "true")

C17_Witness ==
    /\ upc = "update" /\ new_image = "true"
    /\ token_before # <<>> /\ Len(response.hash) = HashBuf
    /\ last_image_hash = SubSeq(response.hash, 1, HashBuf - 1)

\* Calls that send frame data or the refresh command.
FrameCalls == {"BeginFrameM", "BeginFrameS", "WriteLineM", "WriteLineS", "RefreshNow"}

PowerUp(e) == e[1] = "pin" /\ e[2] = "PWR" /\ e[3] = 1
InitCmd(e) == e[1] = "spi" /\ e[2] = "cmd" /\ e[3] = AN_TM

\* Since boot or since the current updateDisplay began, the power-enable line
\* was driven high, Init ran after that, and neither the deep-sleep command
\* nor a low write of the power-enable line has occurred since.
PoweredAndInitialised ==
    /\ ready /\ pin["PWR"] = 1
    /\ \E i \in 1..Len(trace) :
          /\ PowerUp(trace[i])
          /\ \E j \in (i + 1)..Len(trace) : InitCmd(trace[j])
          /\ \A k \in (i + 1)..Len(trace) : ~PowerCut(trace[k]) /\ ~DeepSleepCmd(trace[k])

\* C23: in the sketch (setup, then loop iterations) every BeginFrameM,
\* BeginFrameS, WriteLine and RefreshNow runs on a panel that has been powered
\* on and then initialised since the last PowerOff or Sleep, or since boot.
C23_FramesOnlyWhenInitialised == call \in FrameCalls => PoweredAndInitialised

C23_Witness ==
    /\ InUpdateDisplay /\ call = "RefreshNow" /\ todo = <<>>
    /\ last_image_hash # <<>> /\ PoweredAndInitialised

\* updateDisplay has returned and had driven the power-enable line high.
ReturnedAfterPowerOn ==
    /\ upc = "done" /\ ret \in {"true", "false"}
    /\ \E i \in 1..Len(trace) : PowerUp(trace[i])

\* C24: whenever updateDisplay returns after having called PowerOn, it has
\* called PowerOff after it: the deep-sleep command was sent and the
\* power-enable line is low.
C24_PowerOffOnEveryReturn ==
    ReturnedAfterPowerOn =>
        /\ pin["PWR"] = 0
        /\ \E i \in 1..Len(trace) :
              /\ PowerUp(trace[i])
              /\ \E j \in (i + 1)..Len(trace) : DeepSleepCmd(trace[j])

\* C25: checkForNewImage stores the new hash as the token before the image is
\* fetched and nothing restores the old token: once the updateDisplay for a
\* hash has failed, a later poll that receives that same hash does not report
\* it as new again.
C25_FailedImageNotRefetched ==
    /\ upc = "update" => last_image_hash = strncpy(image.hash, HashBuf - 1)
    /\ new_image = "false" => last_image_hash = token_before
    /\ image.state # "again"

\* checkForNewImage has just returned after a 200 answer with a non-empty hash.
HashReceived ==
    /\ upc \in {"update", "done"} /\ new_image # "none"
    /\ response.code = 200 /\ Len(parseJsonValue(response)) > 0

\* C26: polling is idempotent for an unchanged server hash of any length:
\* after a call of checkForNewImage that received a non-empty hash, a second
\* call that receives the same answer returns false.
C26_PollIdempotent == HashReceived => ~NewImage(response, last_image_hash)

\* Position of the latest PowerOn in the trace (0 when there is none), and the
\* events after it.
LastPowerUp ==
    IF \E i \in 1..Len(trace) : PowerUp(trace[i])
    THEN CHOOSE i \in 1..Len(trace) :
             PowerUp(trace[i]) /\ \A k \in (i + 1)..Len(trace) : ~PowerUp(trace[k])
    ELSE 0

SincePowerUp == SubSeq(trace, LastPowerUp + 1, Len(trace))

IsDtm(e) == e[1] = "spi" /\ e[2] = "cmd" /\ e[3] = DTM

\* C27: between a PowerOn and the next PowerOff of the sketch, Init runs
\* exactly once, and before the first frame is opened: the AN_TM command that
\* follows Init's reset is on the bus at most once since the PowerOn, and
\* exactly once when the first 0x10 is sent.
C27_InitOncePerPowerOn ==
    LastPowerUp > 0 =>
        /\ Len(SelectSeq(SincePowerUp, InitCmd)) <= 1
        /\ (Len(SelectSeq(SincePowerUp, IsDtm)) > 0 => Len(SelectSeq(SincePowerUp, InitCmd)) = 1)

\* The call of updateDisplay whose request is not answered with 200: the step
\* that leaves loop()'s call site without going on to PowerOn.
GetFails == upc = "update" /\ upc' # "PowerOn"

\* C28: when the request for the image stream is not answered with 200,
\* updateDisplay returns false at once: no pin is written (no PowerOn, no reset
\* pulse, no chip select), no driver call is started, no SPI byte or other
\* event occurs, and the stored token stays as it was.
C28_HttpErrorTouchesNothing ==
    [][GetFails => /\ upc' = "done" /\ ret' = "false"
                   /\ pin' = pin /\ todo' = <<>> /\ call' = call /\ trace' = <<>>
                   /\ last_image_hash' = last_image_hash]_vars

C28_Witness ==
    /\ upc = "done" /\ ret = "false" /\ trace = <<>>
    /\ new_image = "true" /\ last_image_hash # <<>> /\ image.state = "pending"
    /\ pin["PWR"] = 0

\* The iteration of loop() that finds WiFi not connected.
WifiDown == upc \in {"loop", "retry"} /\ upc' = "retry"

\* C30: a loop iteration that finds WiFi not connected makes no HTTP request
\* (no answer is received, no stream is opened), leaves the stored token as
\* it was, and performs no panel operation: no driver call, no pin write, no
\* SPI byte.
C30_WifiDownTouchesNothing ==
    [][WifiDown => /\ response' = response /\ stream' = stream /\ new_image' = new_image
                   /\ last_image_hash' = last_image_hash
                   /\ pin' = pin /\ todo' = <<>> /\ call' = call /\ trace' = trace]_vars

C30_Witness ==
    /\ upc = "retry" /\ todo = <<>> /\ trace = <<>>
    /\ last_image_hash # <<>> /\ image.state = "shown" /\ response = NoResponse


(***************************************************************************)
(* SpecBoot: detectDoubleReset over successive boots.  The flash keys      *)
(* survive a reset; a reset (the button, a brown-out, ESP.restart() of the *)
(* configuration portal) may come at any point of setup() or loop().       *)
(***************************************************************************)
MaxBootId == 2
MaxBoots == 4

\* esp_random() & 0xFFFF, on a reduced range that keeps the value 0
BootIds == 0..MaxBootId

other == <<drv, app, script, screen, last_image_hash, response, token_before, new_image, image,
           splashv>>

\* detectDoubleReset, from preferences.begin to the test of bootCount
D_Read ==
    /\ bpc = "boot"
    /\ \E id \in BootIds : currentBootTime' = id
    /\ bootCount' = IF preferences.lastBoot # 0 THEN preferences.bootCount + 1 ELSE 1
    /\ bpc' = IF preferences.lastBoot # 0 /\ preferences.bootCount + 1 >= 2
               THEN "clearCount" ELSE "saveLast"
    /\ UNCHANGED <<preferences, forceConfig, prior, boots>>
    /\ UNCHANGED other

\* double reset detected: preferences.putUInt("bootCount", 0)
D_ClearCount ==
    /\ bpc = "clearCount"
    /\ preferences' = [preferences EXCEPT !.bootCount = 0]
    /\ bpc' = "clearLast"
    /\ UNCHANGED <<bootCount, currentBootTime, forceConfig, prior, boots>>
    /\ UNCHANGED other

\* preferences.putUInt("lastBoot", 0); return true
D_ClearLast ==
    /\ bpc = "clearLast"
    /\ preferences' = [preferences EXCEPT !.lastBoot = 0]
    /\ forceConfig' = "true"
    /\ bpc' = "portal"
    /\ UNCHANGED <<bootCount, currentBootTime, prior, boots>>
    /\ UNCHANGED other

\* preferences.putUInt("lastBoot", currentBootTime)
D_SaveLast ==
    /\ bpc = "saveLast"
    /\ preferences' = [preferences EXCEPT !.lastBoot = currentBootTime]
    /\ bpc' = "saveCount"
    /\ UNCHANGED <<bootCount, currentBootTime, forceConfig, prior, boots>>
    /\ UNCHANGED other

\* preferences.putUInt("bootCount", bootCount); return false
D_SaveCount ==
    /\ bpc = "saveCount"
    /\ preferences' = [preferences EXCEPT !.bootCount = bootCount]
    /\ forceConfig' = "false"
    /\ bpc' = "window"
    /\ UNCHANGED <<bootCount, currentBootTime, prior, boots>>
    /\ UNCHANGED other

\* setup(): the configuration portal ended with a connection
B_Portal ==
    /\ bpc = "portal"
    /\ bpc' = "window"
    /\ UNCHANGED <<preferences, bootCount, currentBootTime, forceConfig, prior, boots>>
    /\ UNCHANGED other

\* setup(), after delay(10000): preferences.putUInt("bootCount", 0)
B_CloseCount ==
    /\ bpc = "window"
    /\ preferences' = [preferences EXCEPT !.bootCount = 0]
    /\ bpc' = "closeLast"
    /\ UNCHANGED <<bootCount, currentBootTime, forceConfig, prior, boots>>
    /\ UNCHANGED other

\* preferences.putUInt("lastBoot", 0): "Double reset window closed"
B_CloseLast ==
    /\ bpc = "closeLast"
    /\ preferences' = [preferences EXCEPT !.lastBoot = 0]
    /\ bpc' = "loop"
    /\ UNCHANGED <<bootCount, currentBootTime, forceConfig, prior, boots>>
    /\ UNCHANGED other

\* Where a boot was when the device was reset: "detected" after its
\* detectDoubleReset returned true, "window" after it returned false and
\* before the counters are cleared, "closed" after they were cleared, and
\* "write" in the middle of detectDoubleReset's or setup's flash writes.
EndOfBoot ==
    IF forceConfig = "true" THEN "detected"
    ELSE IF bpc = "window" THEN "window"
    ELSE IF bpc = "loop" THEN "closed"
    ELSE "write"

\* The device is reset: RAM is lost, the flash keys stay.
B_Reset ==
    /\ bpc # "boot" /\ boots < MaxBoots
    /\ prior' = EndOfBoot
    /\ boots' = boots + 1
    /\ bpc' = "boot" /\ forceConfig' = "none" /\ bootCount' = 0 /\ currentBootTime' = 0
    /\ UNCHANGED preferences
    /\ UNCHANGED other

NextBoot ==
    \/ D_Read \/ D_ClearCount \/ D_ClearLast \/ D_SaveLast \/ D_SaveCount
    \/ B_Portal \/ B_CloseCount \/ B_CloseLast \/ B_Reset

SpecBoot == Init /\ [][NextBoot]_vars

\* C29: a boot that follows a reset inside the double-reset window (the
\* previous boot had recorded its marker and had not yet cleared the
\* counters) detects the double reset and clears both keys; a boot that
\* follows a closed window or a detected double reset does not detect one;
\* for every value of the boot marker.
C29_DoubleResetDetected ==
    forceConfig # "none" =>
        /\ prior = "window" =>
               (forceConfig = "true" /\ preferences = [lastBoot |-> 0, bootCount |-> 0])
        /\ prior \in {"closed", "detected"} => forceConfig = "false"

(***************************************************************************)
(* EPD_13IN3E_DisplayTextScreen at the panel's real size: the two loops    *)
(* that render the 1600 lines of the Master half and then of the Slave     *)
(* half, one step per line.  The line is rendered as the code renders it:  *)
(* band colour, then the glyph rows of the band's text, four pixels per    *)
(* font bit.  A call of WriteLineM / WriteLineS is counted in written.     *)
(***************************************************************************)
\* Longest dynamic line drawn as an input (char ip_line[64] holds 63).
MaxText == 63

\* getEssentialCharIndex with the lower-case test dropped into the
\* upper-case arithmetic: 'a'..'z' land beyond the table.
getEssentialCharIndex_NoFold(c) ==
    IF c >= 48 /\ c <= 57 THEN c - 48
    ELSE IF c >= 65 /\ c <= 122 THEN 10 + (c - 65)
    ELSE IF c = 32 THEN 36
    ELSE IF c = 46 THEN 37
    ELSE IF c = 58 THEN 38
    ELSE IF c = 45 THEN 39
    ELSE IF c = 37 THEN 40
    ELSE 36

\* '0'..'9' -> 0..9, 'A'..'Z' and 'a'..'z' -> 10..35, then ' ', '.', ':',
\* '-', '%' -> 36..40; every other character -> 36 (space)
getEssentialCharIndex(c) ==
    IF c >= 48 /\ c <= 57 THEN c - 48
    ELSE IF c >= 65 /\ c <= 90 THEN 10 + (c - 65)
    ELSE IF c >= 97 /\ c <= 122 THEN 10 + (c - 97)
    ELSE IF c = 32 THEN 36
    ELSE IF c = 46 THEN 37
    ELSE IF c = 58 THEN 38
    ELSE IF c = 45 THEN 39
    ELSE IF c = 37 THEN 40
    ELSE 36

\* const uint8_t font_essential[41][8]: one byte per glyph row, bit 0 is the
\* leftmost pixel
font_essential == <<
    << 62,  99, 115, 123, 111, 103,  62,   0>>,   \* 0
    << 12,  14,  12,  12,  12,  12,  63,   0>>,   \* 1
    << 30,  51,  48,  28,   6,  51,  63,   0>>,   \* 2
    << 30,  51,  48,  28,  48,  51,  30,   0>>,   \* 3
    << 56,  60,  54,  51, 127,  48, 120,   0>>,   \* 4
    << 63,   3,  31,  48,  48,  51,  30,   0>>,   \* 5
    << 28,   6,   3,  31,  51,  51,  30,   0>>,   \* 6
    << 63,  51,  48,  24,  12,  12,  12,   0>>,   \* 7
    << 30,  51,  51,  30,  51,  51,  30,   0>>,   \* 8
    << 30,  51,  51,  62,  48,  24,  14,   0>>,   \* 9
    << 12,  30,  51,  51,  63,  51,  51,   0>>,   \* A
    << 63, 102, 102,  62, 102, 102,  63,   0>>,   \* B
    << 60, 102,   3,   3,   3, 102,  60,   0>>,   \* C
    << 31,  54, 102, 102, 102,  54,  31,   0>>,   \* D
    <<127,  70,  22,  30,  22,  70, 127,   0>>,   \* E
    <<127,  70,  22,  30,  22,   6,  15,   0>>,   \* F
    << 60, 102,   3,   3, 115, 102, 124,   0>>,   \* G
    << 51,  51,  51,  63,  51,  51,  51,   0>>,   \* H
    << 30,  12,  12,  12,  12,  12,  30,   0>>,   \* I
    <<120,  48,  48,  48,  51,  51,  30,   0>>,   \* J
    <<103, 102,  54,  30,  54, 102, 103,   0>>,   \* K
    << 15,   6,   6,   6,  70, 102, 127,   0>>,   \* L
    << 99, 119, 127, 127, 107,  99,  99,   0>>,   \* M
    << 99, 103, 111, 123, 115,  99,  99,   0>>,   \* N
    << 28,  54,  99,  99,  99,  54,  28,   0>>,   \* O
    << 63, 102, 102,  62,   6,   6,  15,   0>>,   \* P
    << 30,  51,  51,  51,  59,  30,  56,   0>>,   \* Q
    << 63, 102, 102,  62,  54, 102, 103,   0>>,   \* R
    << 30,  51,   7,  14,  56,  51,  30,   0>>,   \* S
    << 63,  45,  12,  12,  12,  12,  30,   0>>,   \* T
    << 51,  51,  51,  51,  51,  51,  63,   0>>,   \* U
    << 51,  51,  51,  51,  51,  30,  12,   0>>,   \* V
    << 99,  99,  99, 107, 127, 119,  99,   0>>,   \* W
    << 99,  99,  54,  28,  28,  54,  99,   0>>,   \* X
    << 51,  51,  51,  30,  12,  12,  30,   0>>,   \* Y
    <<127,  99,  49,  24,  76, 102, 127,   0>>,   \* Z
    <<  0,   0,   0,   0,   0,   0,   0,   0>>,   \* space
    <<  0,   0,   0,   0,   0,  24,  24,   0>>,   \* .
    <<  0,  24,  24,   0,   0,  24,  24,   0>>,   \* :
    <<  0,   0,   0, 126,   0,   0,   0,   0>>,   \* -
    << 99,  99,  48,  24,  12,  51,  51,   0>>    \* %
    >>

\* Values of a char argument, signed or unsigned
CharValues == -128..255

\* int band_index = y / 266; if (band_index > 5) band_index = 5;
splash_band_index(yy) == IF yy \div 266 > 5 THEN 5 ELSE yy \div 266

\* line_data & (1 << bit)
BitSet(line_data, bit) == (line_data \div (2 ^ bit)) % 2 = 1

\* Master: for bit 0..7, for scale_x 0..3: pixel_x = text_x + bit*4 + scale_x
\* is written when the bit is set and pixel_x < 600
GlyphRowM(line_data, text_x) ==
    { text_x + bit * 4 + scale_x : <<bit, scale_x>> \in
          { q \in (0..7) \X (0..3) :
                BitSet(line_data, q[1]) /\ text_x + q[1] * 4 + q[2] < 600 } }

\* Master: for (p = text; *p && text_x < 600; p++) { ...; text_x += 40; }
\* The pixels written along the text.
RECURSIVE TextRowM(_, _, _, _)
TextRowM(text, p, text_x, font_y) ==
    IF p > Len(text) \/ text_x >= 600 THEN {}
    ELSE LET char_idx == getEssentialCharIndex(text[p])
             line_data == font_essential[char_idx + 1][font_y + 1]
         IN  GlyphRowM(line_data, text_x) \cup TextRowM(text, p + 1, text_x + 40, font_y)

\* Slave: pixel_offset = bit*4 + scale_x is drawn at text_x + (pixel_offset -
\* char_start_in_right) when it lies in [char_start_in_right, char_end_in_right)
\* and that is below 600
GlyphRowS(line_data, text_x, char_start, char_end) ==
    { text_x + ((bit * 4 + scale_x) - char_start) : <<bit, scale_x>> \in
          { q \in (0..7) \X (0..3) :
                /\ BitSet(line_data, q[1])
                /\ q[1] * 4 + q[2] >= char_start /\ q[1] * 4 + q[2] < char_end
                /\ text_x + ((q[1] * 4 + q[2]) - char_start) < 600 } }

\* Slave: for (p = text; *p && text_x < 600; p++): a character is drawn when
\* current_x + 40 > 600; then text_x += char_end_in_right - char_start_in_right;
\* current_x += 40 in every case
RECURSIVE TextRowS(_, _, _, _, _)
TextRowS(text, p, text_x, current_x, font_y) ==
    IF p > Len(text) \/ text_x >= 600 THEN {}
    ELSE IF current_x + 40 > 600
         THEN LET char_idx == getEssentialCharIndex(text[p])
                  line_data == font_essential[char_idx + 1][font_y + 1]
                  char_start_in_right == IF 600 - current_x > 0 THEN 600 - current_x ELSE 0
                  char_end_in_right == Min(40, 1200 - current_x)
              IN  GlyphRowS(line_data, text_x, char_start_in_right, char_end_in_right)
                  \cup TextRowS(text, p + 1,
                                text_x + (char_end_in_right - char_start_in_right),
                                current_x + 40, font_y)
         ELSE TextRowS(text, p + 1, text_x, current_x + 40, font_y)

\* The nibble writes at the pixels of a text row, all of colour c: byte_idx =
\* pixel_x / 2, guarded by byte_idx < BYTES_PER_LINE_HALF; an even pixel_x
\* takes the high nibble, any other the low one.  The division truncates
\* towards zero, so pixel -1 is the low nibble of byte 0; a pixel below that
\* is a write before the buffer, shown as a byte no pair of colours gives.
WritePixels(line, pixels, c) ==
    IF \E x \in pixels : x < -1 THEN [line EXCEPT ![1] = 255]
    ELSE [i \in 1..Len(line) |->
            LET hi == IF 2 * (i - 1) \in pixels THEN (c * 16) % 256
                      ELSE (line[i] \div 16) * 16
                lo == IF 2 * (i - 1) + 1 \in pixels \/ (i = 1 /\ -1 \in pixels) THEN c % 16
                      ELSE line[i] % 16
            IN  hi + lo]

\* One iteration of either loop up to the WriteLine call: memset with the
\* packed band colour, then the text row when 100 <= y % 266 < 164
SplashLine(half, yy, texts) ==
    LET band == splash_band_index(yy)
        bc == band_color(band)
        packed_color == BitOr((bc * 16) % 256, bc)
        line == [i \in 1..(EPD_13IN3E_WIDTH \div 4) |-> packed_color]
        y_in_band == yy % 266
        scaled_font_y == (y_in_band - 100) \div 4
    IN  IF y_in_band >= 100 /\ y_in_band < 164 /\ scaled_font_y < 8
        THEN IF half = "M"
             THEN WritePixels(line, TextRowM(texts[band + 1], 1, 20, scaled_font_y),
                              text_color(bc))
             ELSE WritePixels(line, TextRowS(texts[band + 1], 1, 0, 20, scaled_font_y),
                              text_color(bc))
        ELSE line

\* Characters the dynamic lines are filled with: '0', 'Z', 'z', '%', and two
\* the font lacks, '(' and the byte 0xFF
SplashChars == {48, 90, 122, 37, 40, 255}

\* snprintf(line, sizeof(line), prefix "%s", ...): the prefix, then the
\* character c, to a line of n characters
FilledText(prefix, c, n) == SubSeq(prefix \o Repeat(<<c>>, n), 1, n)

\* What ip_line, wifi_line and battery_line can hold: the three fixed texts
\* of a frame without WiFi on USB power, or "IP: ", "WIFI: ", "BATTERY: "
\* followed by the formatted values.
SplashInputs ==
    { << <<78, 79, 32, 87, 73, 70, 73, 32, 67, 79, 78, 78, 69, 67, 84, 73, 79, 78>>,
         <<79, 70, 70, 76, 73, 78, 69, 32, 77, 79, 68, 69>>,
         <<85, 83, 66, 32, 80, 79, 87, 69, 82>> >> }
    \cup { << FilledText(<<73, 80, 58, 32>>, c, n),
              FilledText(<<87, 73, 70, 73, 58, 32>>, c, n),
              FilledText(<<66, 65, 84, 84, 69, 82, 89, 58, 32>>, c, n) >> :
           c \in SplashChars, n \in {MaxText \div 4, MaxText} }

\* const char* band_texts[]: "E-INK FRAME (C) 2025", ip_line, wifi_line,
\* battery_line, "13.3 INCH COLOR DISPLAY", "READY FOR YOUR IMAGES"
BandTexts(t) ==
    << <<69, 45, 73, 78, 75, 32, 70, 82, 65, 77, 69, 32, 40, 67, 41, 32, 50, 48, 50, 53>>,
       t[1], t[2], t[3],
       <<49, 51, 46, 51, 32, 73, 78, 67, 72, 32, 67, 79, 76, 79, 82, 32, 68, 73, 83, 80, 76, 65, 89>>,
       <<82, 69, 65, 68, 89, 32, 70, 79, 82, 32, 89, 79, 85, 82, 32, 73, 77, 65, 71, 69, 83>> >>

splashRest == <<drv, script, stream, shortM, shortS, master_bytes, slave_bytes, ret,
                screen, last_image_hash, response, token_before, new_image, image, bootv>>

\* Entry of DisplayTextScreen: the band texts are built, the Master loop starts
R_Start ==
    /\ upc = "idle"
    /\ \E t \in SplashInputs : band_texts' = BandTexts(t)
    /\ upc' = "R_LoopM" /\ y' = 0
    /\ UNCHANGED <<line_buffer, written, splashRest>>

\* for (y = 0; y < EPD_13IN3E_HEIGHT; y++) { render; EPD_13IN3E_WriteLineM(line); }
R_LineM ==
    /\ upc = "R_LoopM" /\ y < EPD_13IN3E_HEIGHT
    /\ line_buffer' = SplashLine("M", y, band_texts)
    /\ written' = [written EXCEPT !.M = @ + 1]
    /\ y' = y + 1
    /\ UNCHANGED <<upc, band_texts, splashRest>>

\* EPD_13IN3E_EndFrameM(); EPD_13IN3E_BeginFrameS();
R_EndM ==
    /\ upc = "R_LoopM" /\ y = EPD_13IN3E_HEIGHT
    /\ upc' = "R_LoopS" /\ y' = 0
    /\ UNCHANGED <<line_buffer, band_texts, written, splashRest>>

\* for (y = 0; y < EPD_13IN3E_HEIGHT; y++) { render; EPD_13IN3E_WriteLineS(line); }
R_LineS ==
    /\ upc = "R_LoopS" /\ y < EPD_13IN3E_HEIGHT
    /\ line_buffer' = SplashLine("S", y, band_texts)
    /\ written' = [written EXCEPT !.S = @ + 1]
    /\ y' = y + 1
    /\ UNCHANGED <<upc, band_texts, splashRest>>

\* EPD_13IN3E_EndFrameS(); EPD_13IN3E_RefreshNow();
R_EndS ==
    /\ upc = "R_LoopS" /\ y = EPD_13IN3E_HEIGHT
    /\ upc' = "R_Done"
    /\ UNCHANGED <<line_buffer, y, band_texts, written, splashRest>>

NextSplash == R_Start \/ R_LineM \/ R_EndM \/ R_LineS \/ R_EndS

SpecSplash == Init /\ [][NextSplash]_vars

\* Both nibbles of the byte are colour codes of the panel.
ValidByte(b) == (b \div 16) \in Colors /\ (b % 16) \in Colors

\* C35: the boot splash writes exactly EPD_13IN3E_HEIGHT lines to the Master
\* and then exactly as many to the Slave; every byte of every line written
\* has both nibbles in {0,1,2,3,5,6}, whatever the texts hold; the band index
\* of every line is in 0..5, lines 1596..1599 being in band 5; and
\* getEssentialCharIndex returns an index in 0..40 for every character.
C35_SplashLinesValid ==
    /\ \A c \in CharValues : getEssentialCharIndex(c) \in 0..40
    /\ \A yy \in 0..(EPD_13IN3E_HEIGHT - 1) :
           /\ splash_band_index(yy) \in 0..5
           /\ yy >= 1596 => splash_band_index(yy) = 5
    /\ upc \in {"R_LoopM", "R_LoopS", "R_Done"} =>
           /\ written.M =
                  (IF upc = "R_LoopM" THEN y ELSE EPD_13IN3E_HEIGHT)
           /\ written.S =
                  (IF upc = "R_LoopM" THEN 0
                   ELSE IF upc = "R_LoopS" THEN y ELSE EPD_13IN3E_HEIGHT)
           /\ written.M + written.S > 0 =>
                  /\ Len(line_buffer) = EPD_13IN3E_WIDTH \div 4
                  /\ \A i \in 1..Len(line_buffer) : ValidByte(line_buffer[i])

\* The splash is complete for a frame whose lines are as long as they can
\* be: both halves got their lines, and the last one, line 1599, is the
\* plain green of band 5.
C35_Witness ==
    /\ upc = "R_Done"
    /\ written = [M |-> EPD_13IN3E_HEIGHT, S |-> EPD_13IN3E_HEIGHT]
    /\ Len(band_texts[2]) = MaxText
    /\ line_buffer = [i \in 1..(EPD_13IN3E_WIDTH \div 4) |-> 102]
====
